---------------------------- MODULE Spec2Model ----------------------------
(***************************************************************************)
(* A model of IND8_Tracker.py: the FCLM report client (authenticated GET   *)
(* with silent cookie refresh), the time-details parser with its           *)
(* reconciliation correction, the restricted-path classifier and the MPV   *)
(* risk check, together with the part of the Tk application that starts    *)
(* background fetches and receives their results.                          *)
(*                                                                         *)
(* Text is modelled as a sequence of one-character strings, so that        *)
(* lower(), replace(), "in" and startswith() are computed character by     *)
(* character.  Minutes are held as whole sixtieths of a minute (the        *)
(* parser's mins + secs / 60.0 is then the integer mins * 60 + secs), so   *)
(* every comparison the code makes on minutes is exact in the model.       *)
(***************************************************************************)
EXTENDS Integers, Sequences, FiniteSets, TLC

(***************************************************************************)
(* Text helpers                                                            *)
(***************************************************************************)
UpperChars ==
  <<"A","B","C","D","E","F","G","H","I","J","K","L","M",
    "N","O","P","Q","R","S","T","U","V","W","X","Y","Z">>

LowerChars ==
  <<"a","b","c","d","e","f","g","h","i","j","k","l","m",
    "n","o","p","q","r","s","t","u","v","w","x","y","z">>

\* the lower-case letter of each upper-case letter, and the reverse
LowerOf ==
  [c \in {UpperChars[i] : i \in DOMAIN UpperChars} |->
     LowerChars[CHOOSE i \in DOMAIN UpperChars : UpperChars[i] = c]]

UpperOf ==
  [c \in {LowerChars[i] : i \in DOMAIN LowerChars} |->
     UpperChars[CHOOSE i \in DOMAIN LowerChars : LowerChars[i] = c]]

\* str.lower() on one character
LowerChar(c) == IF c \in DOMAIN LowerOf THEN LowerOf[c] ELSE c

\* str.upper() on one character
UpperChar(c) == IF c \in DOMAIN UpperOf THEN UpperOf[c] ELSE c

Lower(s) == [i \in DOMAIN s |-> LowerChar(s[i])]

Upper(s) == [i \in DOMAIN s |-> UpperChar(s[i])]

IsSepChar(c) == c = " " \/ c = "_"

NotSepChar(c) == ~IsSepChar(c)

\* s.replace(" ", "").replace("_", "")
DropSeparators(s) == SelectSeq(s, NotSepChar)

\* Python's  t in s  on text
Contains(s, t) ==
  \E i \in 0..(Len(s) - Len(t)) : SubSeq(s, i + 1, i + Len(t)) = t

\* s.startswith(t)
StartsWith(s, t) == Len(t) <= Len(s) /\ SubSeq(s, 1, Len(t)) = t

\* The absent text value: None and "" are both falsy where the code tests them
NONE == <<>>

(***************************************************************************)
(* Configuration tables                                                    *)
(***************************************************************************)
VretWS == <<"V","r","e","t","u","r","n","s"," ","W","a","t","e","r","S","p","i","d","e","r">>

CretEOL == <<"C","-","R","e","t","u","r","n","s","_","E","n","d","o","f","L","i","n","e">>

WaterSpider == <<"W","a","t","e","r"," ","S","p","i","d","e","r">>

WhdWaterspider == <<"W","H","D"," ","W","a","t","e","r","s","p","i","d","e","r">>

WhdWaterSpider == <<"W","H","D"," ","W","a","t","e","r"," ","S","p","i","d","e","r">>

TeamMech == <<"T","e","a","m","_","M","e","c","h","_","W","s","p","i","d","e","r">>

FCLM_RESTRICTED_PATHS ==
  <<VretWS, CretEOL, WaterSpider, WhdWaterspider, WhdWaterSpider, TeamMech>>

MPV_MAX_TIME_MINUTES == 270

\* sixtieths of a minute in one minute
Scale == 60

WORK_CODE_TO_PATH ==
  << [code |-> <<"C","R","E","O","L">>,             path |-> CretEOL],
     [code |-> <<"E","O","L">>,                     path |-> CretEOL],
     [code |-> <<"V","R","W","S">>,                 path |-> VretWS],
     [code |-> <<"V","R","E","T","W","S">>,         path |-> VretWS],
     [code |-> <<"C","R","S","D","C","N","T","F">>, path |-> WaterSpider],
     [code |-> <<"W","H","D","W","T","S","P">>,     path |-> WhdWaterspider],
     [code |-> <<"T","M","W","S","P">>,             path |-> TeamMech] >>

(***************************************************************************)
(* classify_fclm_session                                                   *)
(***************************************************************************)
\* title.lower().replace(" ", "").replace("_", "")
Normalize(s) == DropSeparators(Lower(s))

\* path.lower().replace(" ", "").replace("_", "") of every configured path
PathNorms == [i \in DOMAIN FCLM_RESTRICTED_PATHS |-> Normalize(FCLM_RESTRICTED_PATHS[i])]

\* a variant that matches only a title holding the configured name
PathMatches_Forward(i, title, normalized) ==
  \/ Contains(normalized, PathNorms[i])
  \/ Contains(title, FCLM_RESTRICTED_PATHS[i])

\* the test made for the i-th configured path inside the loop
PathMatches(i, title, normalized) ==
  \/ Contains(normalized, PathNorms[i])
  \/ Contains(PathNorms[i], normalized)
  \/ Contains(title, FCLM_RESTRICTED_PATHS[i])

\* the keyword matching after the loop
KeywordClassify(normalized) ==
  IF Contains(normalized, <<"w","a","t","e","r","s","p","i","d","e","r">>)
  THEN IF Contains(normalized, <<"w","h","d">>) THEN WhdWaterspider
       ELSE IF Contains(normalized, <<"v","r","e","t","u","r","n">>) THEN VretWS
       ELSE WaterSpider
  ELSE IF \/ Contains(normalized, <<"e","n","d","o","f","l","i","n","e">>)
          \/ Contains(normalized, <<"e","o","l">>)
  THEN CretEOL
  ELSE IF \/ Contains(normalized, <<"t","e","a","m","m","e","c","h">>)
          \/ Contains(normalized, <<"t","m","w","s","p">>)
  THEN TeamMech
  ELSE NONE

\* the loop returns at the first configured path that matches; hits holds the
\* indices of all that match
FirstHit(hits, normalized) ==
  IF hits # {}
  THEN FCLM_RESTRICTED_PATHS[CHOOSE i \in hits : \A j \in hits : i <= j]
  ELSE KeywordClassify(normalized)

ClassifyNormalized(title, normalized) ==
  FirstHit({i \in DOMAIN FCLM_RESTRICTED_PATHS : PathMatches(i, title, normalized)},
           normalized)

classify_fclm_session(title) ==
  IF title = NONE THEN NONE ELSE ClassifyNormalized(title, Normalize(title))

(***************************************************************************)
(* compute_fclm_path_times: the dict is kept as the sequence of its items  *)
(* in insertion order, which is the order worked_paths lists its keys in.  *)
(***************************************************************************)
HasKey(path_times, rp) == \E i \in DOMAIN path_times : path_times[i].path = rp

\* path_times.get(rp, 0)
GetTime(path_times, rp) ==
  IF HasKey(path_times, rp)
  THEN path_times[CHOOSE i \in DOMAIN path_times : path_times[i].path = rp].mins
  ELSE 0

\* path_times[rp] = path_times.get(rp, 0) + mins
AddTime(path_times, rp, mins) ==
  IF HasKey(path_times, rp)
  THEN [i \in DOMAIN path_times |->
          IF path_times[i].path = rp
          THEN [path |-> rp, mins |-> path_times[i].mins + mins]
          ELSE path_times[i]]
  ELSE Append(path_times, [path |-> rp, mins |-> mins])

\* one iteration of the loop over the sessions
PathTimesStep(path_times, s) ==
  LET rp == classify_fclm_session(s.title)
  IN  IF rp # NONE THEN AddTime(path_times, rp, s.duration_minutes) ELSE path_times

RECURSIVE PathTimesUpTo(_, _)
PathTimesUpTo(sessions, n) ==
  IF n = 0 THEN <<>>
  ELSE PathTimesStep(PathTimesUpTo(sessions, n - 1), sessions[n])

compute_fclm_path_times(sessions) == PathTimesUpTo(sessions, Len(sessions))

(***************************************************************************)
(* check_mpv_risk                                                          *)
(***************************************************************************)
\* int(mins): truncation toward zero of a value held in sixtieths
IntMinutes(mins) == IF mins >= 0 THEN mins \div Scale ELSE -((-mins) \div Scale)

\* _fmt_mins: the hours and minutes it prints and which of the three forms
FmtMins(mins) ==
  LET h == IntMinutes(mins) \div 60
      m == IntMinutes(mins) % 60
  IN  [h |-> h, m |-> m,
       form |-> IF h > 0 /\ m > 0 THEN "Hh Mm" ELSE IF h > 0 THEN "Hh" ELSE "Mm"]

\* the relaxed match of the normalised work code against one table code
CodeMatches(upper, code) ==
  upper = code \/ StartsWith(upper, code) \/ StartsWith(code, upper)

\* lines 929-936: the target path of a work code, NONE when there is none
ResolveTarget(target_work_code) ==
  IF target_work_code = NONE THEN NONE
  ELSE LET upper == DropSeparators(Upper(target_work_code))
       IN  IF \E i \in DOMAIN WORK_CODE_TO_PATH :
                 CodeMatches(upper, WORK_CODE_TO_PATH[i].code)
           THEN WORK_CODE_TO_PATH[
                  CHOOSE i \in DOMAIN WORK_CODE_TO_PATH :
                    /\ CodeMatches(upper, WORK_CODE_TO_PATH[i].code)
                    /\ \A j \in 1..(i - 1) :
                         ~CodeMatches(upper, WORK_CODE_TO_PATH[j].code)].path
           ELSE NONE

\* the result dict as initialised, with path_times, worked_paths, target_path set
RiskBase(path_times, target_path) ==
  [has_risk          |-> FALSE,
   reason            |-> "None",
   details           |-> <<>>,
   worked_paths      |-> [i \in DOMAIN path_times |-> path_times[i].path],
   target_path       |-> target_path,
   path_times        |-> path_times,
   remaining_minutes |-> {},
   current_minutes   |-> {}]

\* Rule 1: some worked path differs from the target
SwitchFires(path_times, target_path) ==
  \E i \in DOMAIN path_times : path_times[i].path # target_path

\* the first worked path, in worked_paths order, that differs from the target
FirstOther(path_times, target_path) ==
  path_times[CHOOSE i \in DOMAIN path_times :
               /\ path_times[i].path # target_path
               /\ \A j \in 1..(i - 1) : path_times[j].path = target_path]

\* a variant of Rule 2 that lets exactly the ceiling pass
TimeExceeded_Strict(target_time) == target_time > MPV_MAX_TIME_MINUTES * Scale

\* Rule 2: the time on the target path has reached the ceiling
TimeExceeded(target_time) == target_time >= MPV_MAX_TIME_MINUTES * Scale

\* a variant that applies the time rule before the switch rule
check_mpv_risk_TimeFirst(sessions, target_work_code) ==
  LET path_times  == compute_fclm_path_times(sessions)
      target_path == ResolveTarget(target_work_code)
      base        == RiskBase(path_times, target_path)
      target_time == GetTime(path_times, target_path)
  IN  IF target_path = NONE THEN base
      ELSE IF TimeExceeded(target_time)
      THEN [base EXCEPT !.has_risk = TRUE, !.reason = "TIME_EXCEEDED"]
      ELSE IF SwitchFires(path_times, target_path)
      THEN [base EXCEPT !.has_risk = TRUE, !.reason = "PATH_SWITCH"]
      ELSE IF target_time > 0
      THEN [base EXCEPT
              !.remaining_minutes = {MPV_MAX_TIME_MINUTES * Scale - target_time},
              !.current_minutes   = {target_time}]
      ELSE base

\* a variant that applies the two rules although no target was resolved
check_mpv_risk_NoEarlyReturn(sessions, target_work_code) ==
  LET path_times  == compute_fclm_path_times(sessions)
      target_path == ResolveTarget(target_work_code)
      base        == RiskBase(path_times, target_path)
      target_time == GetTime(path_times, target_path)
  IN  IF SwitchFires(path_times, target_path)
      THEN [base EXCEPT
              !.has_risk = TRUE,
              !.reason   = "PATH_SWITCH",
              !.details  = <<"Already worked", FirstOther(path_times, target_path).path,
                             FmtMins(FirstOther(path_times, target_path).mins),
                             "Cannot switch to", target_path>>]
      ELSE IF TimeExceeded(target_time)
      THEN [base EXCEPT
              !.has_risk = TRUE,
              !.reason   = "TIME_EXCEEDED",
              !.details  = <<"Already", FmtMins(target_time), "on", target_path,
                             "Max allowed is", FmtMins(MPV_MAX_TIME_MINUTES * Scale)>>]
      ELSE IF target_time > 0
      THEN [base EXCEPT
              !.remaining_minutes = {MPV_MAX_TIME_MINUTES * Scale - target_time},
              !.current_minutes   = {target_time}]
      ELSE base

\* a variant that reports the remaining time even with no time on the target
check_mpv_risk_RemainingAlways(sessions, target_work_code) ==
  LET path_times  == compute_fclm_path_times(sessions)
      target_path == ResolveTarget(target_work_code)
      base        == RiskBase(path_times, target_path)
      target_time == GetTime(path_times, target_path)
  IN  IF target_path = NONE THEN base
      ELSE IF SwitchFires(path_times, target_path)
      THEN [base EXCEPT
              !.has_risk = TRUE,
              !.reason   = "PATH_SWITCH",
              !.details  = <<"Already worked", FirstOther(path_times, target_path).path,
                             FmtMins(FirstOther(path_times, target_path).mins),
                             "Cannot switch to", target_path>>]
      ELSE IF TimeExceeded(target_time)
      THEN [base EXCEPT
              !.has_risk = TRUE,
              !.reason   = "TIME_EXCEEDED",
              !.details  = <<"Already", FmtMins(target_time), "on", target_path,
                             "Max allowed is", FmtMins(MPV_MAX_TIME_MINUTES * Scale)>>]
      ELSE [base EXCEPT
              !.remaining_minutes = {MPV_MAX_TIME_MINUTES * Scale - target_time},
              !.current_minutes   = {target_time}]

\* remaining_minutes and current_minutes are None ({}) or a value ({v})
check_mpv_risk(sessions, target_work_code) ==
  LET path_times  == compute_fclm_path_times(sessions)
      target_path == ResolveTarget(target_work_code)
      base        == RiskBase(path_times, target_path)
      target_time == GetTime(path_times, target_path)
  IN  IF target_path = NONE THEN base
      ELSE IF SwitchFires(path_times, target_path)
      THEN [base EXCEPT
              !.has_risk = TRUE,
              !.reason   = "PATH_SWITCH",
              !.details  = <<"Already worked", FirstOther(path_times, target_path).path,
                             FmtMins(FirstOther(path_times, target_path).mins),
                             "Cannot switch to", target_path>>]
      ELSE IF TimeExceeded(target_time)
      THEN [base EXCEPT
              !.has_risk = TRUE,
              !.reason   = "TIME_EXCEEDED",
              !.details  = <<"Already", FmtMins(target_time), "on", target_path,
                             "Max allowed is", FmtMins(MPV_MAX_TIME_MINUTES * Scale)>>]
      ELSE IF target_time > 0
      THEN [base EXCEPT
              !.remaining_minutes = {MPV_MAX_TIME_MINUTES * Scale - target_time},
              !.current_minutes   = {target_time}]
      ELSE base

(***************************************************************************)
(* Text helpers of the report parser                                       *)
(***************************************************************************)
\* characters outside ASCII are written by their code point
DIAMOND == "U+2666"

ELLIPSIS == "U+2026"

NonAsciiChars == {DIAMOND, ELLIPSIS}

IsWhitespace(c) == c \in {" ", "\t", "\n", "\r", "\f"}

RECURSIVE LStrip(_)
LStrip(s) == IF s # <<>> /\ IsWhitespace(Head(s)) THEN LStrip(Tail(s)) ELSE s

RECURSIVE RStrip(_)
RStrip(s) ==
  IF s # <<>> /\ IsWhitespace(s[Len(s)]) THEN RStrip(SubSeq(s, 1, Len(s) - 1)) ELSE s

\* str.strip()
Strip(s) == RStrip(LStrip(s))

DigitChars == <<"0","1","2","3","4","5","6","7","8","9">>

IsDigit(c) == \E i \in DOMAIN DigitChars : DigitChars[i] = c

DigitValue(c) == (CHOOSE i \in DOMAIN DigitChars : DigitChars[i] = c) - 1

RECURSIVE DigitsValue(_)
DigitsValue(ds) ==
  IF ds = <<>> THEN 0
  ELSE DigitsValue(SubSeq(ds, 1, Len(ds) - 1)) * 10 + DigitValue(ds[Len(ds)])

AllDigits(ds) == ds # <<>> /\ \A i \in DOMAIN ds : IsDigit(ds[i])

\* int(text) succeeds: optional sign, then digits, blanks around allowed
IsIntText(text) ==
  LET t == Strip(text)
  IN  /\ t # <<>>
      /\ IF Head(t) \in {"-", "+"} THEN AllDigits(Tail(t)) ELSE AllDigits(t)

\* int(text) where it succeeds
IntValue(text) ==
  LET t == Strip(text)
  IN  IF Head(t) = "-" THEN -DigitsValue(Tail(t))
      ELSE IF Head(t) = "+" THEN DigitsValue(Tail(t))
      ELSE DigitsValue(t)

\* the decimal digits of n >= 0
RECURSIVE IntText(_)
IntText(n) ==
  IF n < 10 THEN <<DigitChars[n + 1]>>
  ELSE Append(IntText(n \div 10), DigitChars[(n % 10) + 1])

\* format with :02d, n >= 0
IntText02(n) == IF n < 10 THEN <<"0">> \o IntText(n) ELSE IntText(n)

HasChar(s, c) == \E i \in DOMAIN s : s[i] = c

FirstIndex(s, c) == CHOOSE i \in DOMAIN s : s[i] = c /\ \A j \in 1..(i - 1) : s[j] # c

LastIndex(s, c) ==
  CHOOSE i \in DOMAIN s : s[i] = c /\ \A j \in (i + 1)..Len(s) : s[j] # c

\* s.split(c)[0]
FirstPart(s, c) == IF HasChar(s, c) THEN SubSeq(s, 1, FirstIndex(s, c) - 1) ELSE s

\* everything after the first c
AfterFirst(s, c) == SubSeq(s, FirstIndex(s, c) + 1, Len(s))

\* s.split(c)[-1]
LastPart(s, c) == IF HasChar(s, c) THEN SubSeq(s, LastIndex(s, c) + 1, Len(s)) ELSE s

\* _parse_fclm_duration, in sixtieths of a minute
parse_fclm_duration(duration) ==
  IF duration = <<>> THEN 0
  ELSE IF ~HasChar(duration, ":") THEN 0
  ELSE LET p0 == FirstPart(duration, ":")
           p1 == FirstPart(AfterFirst(duration, ":"), ":")
       IN  IF IsIntText(p0) /\ IsIntText(p1)
           THEN IntValue(p0) * Scale + IntValue(p1)
           ELSE 0

\* _strip_html of one cell: the text of the first link if there is one,
\* otherwise the cell with its tags removed; stripped of blanks either way
strip_html(cell) == IF cell.hasLink THEN Strip(cell.link) ELSE Strip(cell.plain)

(***************************************************************************)
(* _parse_time_details                                                     *)
(*                                                                         *)
(* A page is the record of what the parser's patterns find in it: the      *)
(* marker tokens, the rows of the ganttChart table (ganttTable is {} when  *)
(* no such table matches, {rows} when one does) and the "Hours on Task"    *)
(* figures.  A row is its class markers, whether it holds a <th, and its   *)
(* <td> cells in order.                                                    *)
(***************************************************************************)
OffClock == <<"O","f","f","C","l","o","c","k">>

OnClock == <<"O","n","C","l","o","c","k">>

\* the four values read from a row, lines 415-450
RowFields(row) ==
  LET cells == row.cells
      n     == Len(cells)
      empty == [title |-> <<>>, start |-> <<>>, end |-> <<>>, duration |-> <<>>]
      at(k) == [title    |-> strip_html(cells[k]),
                start    |-> strip_html(cells[k + 1]),
                end      |-> strip_html(cells[k + 2]),
                duration |-> strip_html(cells[k + 3])]
  IN  IF "job-seg" \in row.cls
      THEN IF n >= 5 THEN at(2) ELSE empty
      ELSE IF "function-seg" \in row.cls \/ "clock-seg" \in row.cls
      THEN [at(1) EXCEPT !.title =
              IF HasChar(strip_html(cells[1]), DIAMOND)
              THEN Strip(LastPart(strip_html(cells[1]), DIAMOND))
              ELSE strip_html(cells[1])]
      ELSE IF n >= 5
      THEN IF Len(strip_html(cells[1])) <= 2 THEN at(2) ELSE at(1)
      ELSE at(1)

\* the row is passed over before anything is read from it, lines 408-413
RowSkipped(row) == "totSummary" \in row.cls \/ row.th \/ Len(row.cells) < 4

\* line 452
TitleDropped(title) ==
  title = <<>> \/ Contains(title, OffClock) \/ Contains(title, OnClock)

\* a variant without the skip of function-seg rows
IsFunctionRow_Never(row) == FALSE

\* the row adds to func_seg_totals and is not made a session, lines 458-460
IsFunctionRow(row) == "function-seg" \in row.cls

\* the session dict built from a row, lines 462-469
RowSession(row) ==
  LET f == RowFields(row)
  IN  [title            |-> f.title,
       start            |-> f.start,
       end              |-> f.end,
       duration         |-> f.duration,
       duration_minutes |-> parse_fclm_duration(f.duration),
       row_type         |-> IF "job-seg" \in row.cls THEN "job" ELSE "other"]

\* line 472
IsOpen(session) == session.end = <<>> \/ Strip(session.end) = <<>>

\* a variant that keeps the first open session
NextCurrent_KeepFirst(current, session) ==
  IF IsOpen(session) /\ current = {} THEN {session} ELSE current

\* the current_activity after a session has been appended, lines 472-474
NextCurrent(current, session) == IF IsOpen(session) THEN {session} ELSE current

\* the body of the loop over the rows, on the parser's local state
ParseRow(st, row) ==
  IF RowSkipped(row) \/ TitleDropped(RowFields(row).title) THEN st
  ELSE IF IsFunctionRow(row)
  THEN [st EXCEPT !.func_seg_totals =
          AddTime(@, RowFields(row).title, parse_fclm_duration(RowFields(row).duration))]
  ELSE [st EXCEPT
          !.sessions         = Append(@, RowSession(row)),
          !.current_activity = NextCurrent(@, RowSession(row)),
          !.is_clocked_in    = @ \/ IsOpen(RowSession(row))]

ParseStart ==
  [sessions |-> <<>>, current_activity |-> {}, is_clocked_in |-> FALSE,
   func_seg_totals |-> <<>>]

RECURSIVE ParseRows(_, _)
ParseRows(rows, n) ==
  IF n = 0 THEN ParseStart ELSE ParseRow(ParseRows(rows, n - 1), rows[n])

\* job_seg_totals, lines 478-480: the minutes of the sessions of one title
RECURSIVE SessionMinutes(_, _)
SessionMinutes(sessions, title) ==
  IF sessions = <<>> THEN 0
  ELSE SessionMinutes(Tail(sessions), title)
       + (IF Head(sessions).title = title THEN Head(sessions).duration_minutes ELSE 0)

\* a variant that counts the job-seg sessions only
RECURSIVE JobMinutes_JobKindOnly(_, _)
JobMinutes_JobKindOnly(sessions, title) ==
  IF sessions = <<>> THEN 0
  ELSE JobMinutes_JobKindOnly(Tail(sessions), title)
       + (IF Head(sessions).title = title /\ Head(sessions).row_type = "job"
          THEN Head(sessions).duration_minutes ELSE 0)

\* the minutes the totals are compared with for one title, line 483
JobMinutes(sessions, title) == SessionMinutes(sessions, title)

\* the synthetic session of lines 486-493
CorrectionSession(title, diff) ==
  [title            |-> title,
   start            |-> <<>>,
   end              |-> <<>>,
   duration         |-> IntText(diff \div Scale) \o <<":">> \o IntText02(diff % Scale),
   duration_minutes |-> diff,
   row_type         |-> "correction"]

\* the loop of lines 482-493 over the first n items of func_seg_totals; the
\* job totals were taken before it, from the sessions the rows gave
RECURSIVE Corrections(_, _, _)
Corrections(func_seg_totals, sessions, n) ==
  IF n = 0 THEN <<>>
  ELSE LET func_mins == func_seg_totals[n].mins
           job_mins  == JobMinutes(sessions, func_seg_totals[n].path)
       IN  Corrections(func_seg_totals, sessions, n - 1)
           \o (IF func_mins > job_mins
               THEN <<CorrectionSession(func_seg_totals[n].path, func_mins - job_mins)>>
               ELSE <<>>)

parse_time_details(html, employee_id) ==
  IF html.ganttTable = {}
  THEN [employee_id |-> employee_id, sessions |-> <<>>, current_activity |-> {},
        is_clocked_in |-> FALSE, hours_on_task |-> 0, total_scheduled_hours |-> 0]
  ELSE LET rows == CHOOSE r \in html.ganttTable : TRUE
           st   == ParseRows(rows, Len(rows))
       IN  [employee_id      |-> employee_id,
            sessions         |-> st.sessions \o
                                 Corrections(st.func_seg_totals, st.sessions,
                                             Len(st.func_seg_totals)),
            current_activity |-> st.current_activity,
            is_clocked_in    |-> st.is_clocked_in,
            hours_on_task    |-> IF html.hours = {} THEN 0
                                 ELSE (CHOOSE h \in html.hours : TRUE)[1],
            total_scheduled_hours |-> IF html.hours = {} THEN 0
                                      ELSE (CHOOSE h \in html.hours : TRUE)[2]]

(***************************************************************************)
(* FclmClient: the credential and the expired-page test                    *)
(***************************************************************************)
IsAscii(c) == c \notin NonAsciiChars

\* a variant that keeps every character
sanitize_cookie_Keep(cookie) == cookie

\* _sanitize_cookie: the characters with ord(c) < 128
sanitize_cookie(cookie) == SelectSeq(cookie, IsAscii)

\* FclmClient.__init__: the fields the model keeps of a client object
NewClient(cookie, hasCallback) ==
  [cookie |-> sanitize_cookie(cookie), hasCallback |-> hasCallback]

\* is_connected
is_connected(client) == Strip(client.cookie) # <<>>

\* _is_login_page, on the tokens found in the page
is_login_page(html) ==
  html.midway \/ html.signIn \/ (html.loginPath /\ ~html.ganttChartToken)

(***************************************************************************)
(* _display_fclm_employee: consolidation of the sessions and the status    *)
(***************************************************************************)
WARNING_THRESHOLD_HOURS == 5

INDIRECT_LIMIT_HOURS == 6

CretSupport == <<"C","-","R","e","t","u","r","n","s"," ","S","u","p","p","o","r","t">>

CretProcessed == <<"C","-","R","e","t","u","r","n","s"," ","P","r","o","c","e","s","s","e","d">>

VReturns == <<"V","-","R","e","t","u","r","n","s">>

WhdGrading == <<"W","H","D"," ","G","r","a","d","i","n","g">>

WhdGradingSupport == WhdGrading \o <<" ","S","u","p","p","o","r","t">>

RoleNA == <<"N","/","A">>

DownStack == <<"D","o","w","n"," ","S","t","a","c","k">>

ACTIVE == <<"A","C","T","I","V","E">>

FCLM_PATH_MAP ==
  << [title |-> CretEOL,           area |-> "CRET", role |-> WaterSpider, type |-> "INDIRECT"],
     [title |-> VretWS,            area |-> "VRET", role |-> WaterSpider, type |-> "INDIRECT"],
     [title |-> WaterSpider,       area |-> "CRET", role |-> WaterSpider, type |-> "INDIRECT"],
     [title |-> WhdWaterspider,    area |-> "CRET", role |-> WaterSpider, type |-> "INDIRECT"],
     [title |-> WhdWaterSpider,    area |-> "CRET", role |-> WaterSpider, type |-> "INDIRECT"],
     [title |-> TeamMech,          area |-> "CRET", role |-> WaterSpider, type |-> "INDIRECT"],
     [title |-> CretSupport,       area |-> "CRET", role |-> RoleNA,      type |-> "DIRECT"],
     [title |-> CretProcessed,     area |-> "CRET", role |-> RoleNA,      type |-> "DIRECT"],
     [title |-> VReturns,          area |-> "VRET", role |-> RoleNA,      type |-> "DIRECT"],
     [title |-> WhdGrading,        area |-> "CRET", role |-> DownStack,   type |-> "DIRECT"],
     [title |-> WhdGradingSupport, area |-> "CRET", role |-> DownStack,   type |-> "DIRECT"] >>

\* FCLM_PATH_MAP.get(key): {} when the key is absent, {entry} otherwise
PathMapGet(key) == {FCLM_PATH_MAP[i] : i \in {j \in DOMAIN FCLM_PATH_MAP : FCLM_PATH_MAP[j].title = key}}

\* title[:20]
First20(title) == SubSeq(title, 1, IF Len(title) < 20 THEN Len(title) ELSE 20)

\* lines 1832-1855: the work type, area, label and grouping key of a session
\* mapping is the set holding the entry found, empty when none was
GroupOf(title, rp, mapping) ==
  IF rp # NONE
  THEN [restricted |-> TRUE, indirect |-> TRUE, work_type |-> "INDIRECT",
        area  |-> IF mapping # {} THEN (CHOOSE x \in mapping : TRUE).area ELSE "CRET",
        label |-> IF mapping # {} THEN (CHOOSE x \in mapping : TRUE).role ELSE WaterSpider,
        key   |-> rp]
  ELSE IF mapping # {}
  THEN [restricted |-> FALSE,
        indirect   |-> (CHOOSE x \in mapping : TRUE).type = "INDIRECT",
        work_type  |-> (CHOOSE x \in mapping : TRUE).type,
        area       |-> (CHOOSE x \in mapping : TRUE).area,
        label      |-> IF (CHOOSE x \in mapping : TRUE).type = "INDIRECT"
                       THEN (CHOOSE x \in mapping : TRUE).role ELSE First20(title),
        key        |-> title]
  ELSE [restricted |-> FALSE, indirect |-> FALSE, work_type |-> "DIRECT",
        area |-> "--", label |-> First20(title), key |-> title]

\* FCLM_PATH_MAP.get(restricted_path or title) or FCLM_PATH_MAP.get(title)
MappingOf(title, rp) ==
  IF PathMapGet(IF rp # NONE THEN rp ELSE title) # {}
  THEN PathMapGet(IF rp # NONE THEN rp ELSE title)
  ELSE PathMapGet(title)

GroupOfPath(title, rp) == GroupOf(title, rp, MappingOf(title, rp))

SessionGroup(s) == GroupOfPath(s.title, classify_fclm_session(s.title))

\* a variant that keeps the longest session of a group instead of the sum
MergeGroup_KeepLongest(entries, s, g) ==
      IF \E i \in DOMAIN entries : entries[i].key = g.key
      THEN [i \in DOMAIN entries |->
              IF entries[i].key = g.key
              THEN [entries[i] EXCEPT
                      !.mins = IF s.duration_minutes > @ THEN s.duration_minutes ELSE @,
                      !.last_end = IF s.end = <<>> THEN <<>>
                                   ELSE IF @ # <<>> THEN s.end ELSE @]
              ELSE entries[i]]
      ELSE Append(entries,
                  [key |-> g.key, work_type |-> g.work_type, area |-> g.area,
                   label |-> g.label, mins |-> s.duration_minutes,
                   first_start |-> s.start, last_end |-> s.end])

\* a variant in which the end of the row merged last always wins
MergeGroup_LastEndWins(entries, s, g) ==
      IF \E i \in DOMAIN entries : entries[i].key = g.key
      THEN [i \in DOMAIN entries |->
              IF entries[i].key = g.key
              THEN [entries[i] EXCEPT
                      !.mins = @ + s.duration_minutes,
                      !.last_end = s.end]
              ELSE entries[i]]
      ELSE Append(entries,
                  [key |-> g.key, work_type |-> g.work_type, area |-> g.area,
                   label |-> g.label, mins |-> s.duration_minutes,
                   first_start |-> s.start, last_end |-> s.end])

\* lines 1857-1875: one session merged into the consolidated entries, which are
\* kept in display order
MergeGroup(entries, s, g) ==
      IF \E i \in DOMAIN entries : entries[i].key = g.key
      THEN [i \in DOMAIN entries |->
              IF entries[i].key = g.key
              THEN [entries[i] EXCEPT
                      !.mins = @ + s.duration_minutes,
                      !.last_end = IF s.end = <<>> THEN <<>>
                                   ELSE IF @ # <<>> THEN s.end ELSE @]
              ELSE entries[i]]
      ELSE Append(entries,
                  [key |-> g.key, work_type |-> g.work_type, area |-> g.area,
                   label |-> g.label, mins |-> s.duration_minutes,
                   first_start |-> s.start, last_end |-> s.end])

ConsolidateStep(entries, s) == MergeGroup(entries, s, SessionGroup(s))

RECURSIVE Consolidate(_, _)
Consolidate(sessions, n) ==
  IF n = 0 THEN <<>> ELSE ConsolidateStep(Consolidate(sessions, n - 1), sessions[n])

\* total_indirect_mins
RECURSIVE IndirectMinutes(_)
IndirectMinutes(sessions) ==
  IF sessions = <<>> THEN 0
  ELSE IndirectMinutes(Tail(sessions))
       + (IF SessionGroup(Head(sessions)).indirect
          THEN Head(sessions).duration_minutes ELSE 0)

\* restricted_paths_worked
RestrictedWorked(sessions) ==
  {classify_fclm_session(sessions[i].title) : i \in DOMAIN sessions} \ {NONE}

\* the rows inserted in the tree, lines 1877-1887
RowsOf(entries) ==
  [i \in DOMAIN entries |->
     [first_start |-> entries[i].first_start,
      last_end    |-> IF entries[i].last_end = <<>> THEN ACTIVE ELSE entries[i].last_end,
      work_type   |-> entries[i].work_type,
      area        |-> entries[i].area,
      label       |-> entries[i].label,
      mins        |-> entries[i].mins]]

TreeRows(data) == RowsOf(Consolidate(data.sessions, Len(data.sessions)))

\* the status line left by _display_fclm_employee, lines 1889-1917
StatusKind(mins) ==
  IF mins >= INDIRECT_LIMIT_HOURS * 60 * Scale THEN "VIOLATION"
  ELSE IF mins >= WARNING_THRESHOLD_HOURS * 60 * Scale THEN "Near violation" ELSE "OK"

DisplayStatus(data) ==
      IF Len(data.sessions) = 0
      THEN [kind |-> "No FCLM sessions found", badge |-> data.employee_id,
            paths |-> {}, current |-> <<>>, hot |-> {}]
      ELSE [kind    |-> StatusKind(IndirectMinutes(data.sessions)),
            badge   |-> data.employee_id,
            paths   |-> RestrictedWorked(data.sessions),
            current |-> IF data.current_activity = {} THEN <<>>
                        ELSE (CHOOSE c \in data.current_activity : TRUE).title,
            hot     |-> IF data.hours_on_task # 0
                        THEN {<<data.hours_on_task, data.total_scheduled_hours>>} ELSE {}]

(***************************************************************************)
(* Pages                                                                   *)
(***************************************************************************)
\* a page holding none of the tokens and no table
BlankPage ==
  [midway |-> FALSE, signIn |-> FALSE, loginPath |-> FALSE,
   ganttChartToken |-> FALSE, timeDetailsToken |-> FALSE,
   ganttTable |-> {}, hours |-> {}]

\* a time-details report whose ganttChart table holds the given rows
ReportPage(rows) ==
  [BlankPage EXCEPT !.ganttChartToken = TRUE, !.timeDetailsToken = TRUE,
                    !.ganttTable = {rows}]

\* a <td> without a link, and one whose text is a link
Cell(text) == [hasLink |-> FALSE, link |-> <<>>, plain |-> text]

LinkCell(text) == [hasLink |-> TRUE, link |-> text, plain |-> text]

(***************************************************************************)
(* State                                                                   *)
(***************************************************************************)
VARIABLES
  risk_in,       \* the arguments of one call of check_mpv_risk
  risk_out,      \* {} before the call, {result} after it
  parse_in,      \* the page given to one call of _parse_time_details
  parse_out,     \* {} before the call, {result} after it
  consolidated,  \* {} or the entries _display_fclm_employee makes of the result
  session_times, \* {} or what compute_fclm_path_times makes of its sessions
  clients,       \* the FclmClient objects created so far, by identity
  fclm,          \* App.fclm: the identity of the application's client
  config_cookie, \* config["fclm_cookie"] as saved
  associates,    \* the associates table: the badge of each id
  current_associate_id,  \* App.current_associate_id, 0 for None
  employee_data, \* App._fclm_employee_data: {} for None, {data}
  view,          \* the session table, the hours and the status line
  fclm_label,    \* the FCLM banner
  units,         \* the requests started so far: threads and foreground calls
  after_queue,   \* the callbacks handed to root.after, oldest first
  shown,         \* the unit whose result the view shows, 0 for none
  writes,        \* which context has written which foreground-owned state
  detect,        \* one call of BrowserCookieReader.auto_detect, step by step
  rollup,        \* one call of fetch_all_path_aas, process by process
  probe,         \* one call of test_connection on a client of its own
  classified,    \* a title and what classify_fclm_session returns for it
  store          \* the sessions table of the local store and the calls made on it

riskVars == <<risk_in, risk_out>>

parseVars == <<parse_in, parse_out, consolidated, session_times>>

appVars ==
  <<clients, fclm, config_cookie, associates, current_associate_id, employee_data,
    view, fclm_label, units, after_queue, shown, writes>>

auxVars == <<detect, rollup, probe, classified, store>>

vars == <<riskVars, parseVars, appVars, auxVars>>

\* the parts of the state a specification does not use stay as they are here
RiskIdle == risk_in = [sessions |-> <<>>, code |-> NONE] /\ risk_out = {}

ParseIdle ==
  /\ parse_in = [html |-> BlankPage, employee_id |-> <<>>]
  /\ parse_out = {}
  /\ consolidated = {}
  /\ session_times = {}

\* no associate loaded, nothing looked up
EmptyView == [source |-> "none", assoc |-> 0, tree |-> <<>>, indirect |-> 0,
              status |-> [kind |-> "No associate selected", badge |-> <<>>,
                          paths |-> {}, current |-> <<>>, hot |-> {}]]

AuxIdle ==
  detect = <<>> /\ rollup = <<>> /\ probe = <<>> /\ classified = <<>> /\ store = <<>>

AppIdle ==
  /\ clients = <<>>
  /\ fclm = 0
  /\ config_cookie = <<>>
  /\ associates = <<>>
  /\ current_associate_id = 0
  /\ employee_data = {}
  /\ view = EmptyView
  /\ fclm_label = "FCLM: Not configured"
  /\ units = <<>>
  /\ after_queue = <<>>
  /\ shown = 0
  /\ writes = {}

(***************************************************************************)
(* Bounded inputs                                                          *)
(***************************************************************************)
MaxSessions == 2

MaxRows == 3

\* all sequences over S of length at most n
SeqsUpTo(S, n) == UNION {[1..k -> S] : k \in 0..n}

Pick == <<"P","i","c","k">>

T1800 == <<"1","8",":","0","0">>

T1930 == <<"1","9",":","3","0">>

\* a session as check_mpv_risk reads it: a title and its minutes
RiskSession(title, mins) ==
  [title |-> title, start |-> T1800, end |-> T1930, duration |-> <<>>,
   duration_minutes |-> mins, row_type |-> "job"]

RiskTitles == {WaterSpider, CretEOL, WhdWaterspider, Pick}

RiskMinutes == {0, 10 * Scale, 135 * Scale, 269 * Scale, 270 * Scale}

RiskSessions == {RiskSession(t, m) : t \in RiskTitles, m \in RiskMinutes}

RiskCodes ==
  { <<"C","R","E","O","L">>, <<"c","r","s","d","c","n","t","f">>,
    <<"W","H","D","W","T","S","P">>, <<"X","Y","Z">>, <<" ","_">>, NONE }

D90 == <<"9","0",":","0","0">>

D40 == <<"4","0",":","0","0">>

D50 == <<"5","0",":","0","0">>

D130 == <<"1","3","0",":","0","0">>

D170 == <<"1","7","0",":","0","0">>

D0030 == <<"0",":","3","0">>

Badge101 == <<"1","0","1">>

JobRow(title, end, duration) ==
  [cls |-> {"job-seg"}, th |-> FALSE,
   cells |-> <<Cell(<<>>), LinkCell(title), Cell(T1800), Cell(end), Cell(duration)>>]

FuncRow(rawTitle, duration) ==
  [cls |-> {"function-seg"}, th |-> FALSE,
   cells |-> <<Cell(rawTitle), Cell(T1800), Cell(T1930), Cell(duration)>>]

OtherRow(cls, title, end, duration) ==
  [cls |-> cls, th |-> FALSE,
   cells |-> <<Cell(title), Cell(T1800), Cell(end), Cell(duration)>>]

\* the rows the pages are built from: job rows closed and open and one with a
\* signed duration, function rows
\* with and without the diamond prefix, clock and unclassed rows, a clock
\* marker row, a summary row and a job row too short for the job layout
RowSet ==
  { JobRow(WaterSpider, T1930, D90),
    JobRow(WaterSpider, <<>>, D40),
    JobRow(Pick, T1930, D130),
    JobRow(WaterSpider, T1930, <<"-","5",":","0","0">>),
    FuncRow(<<"C","R","E","T", DIAMOND, " ">> \o WaterSpider, D170),
    FuncRow(Pick, D170),
    FuncRow(WaterSpider, D130),
    OtherRow({"clock-seg"}, WaterSpider, <<" ">>, D50),
    OtherRow({}, Pick, <<>>, D0030),
    OtherRow({"clock-seg"}, OnClock, T1930, D90),
    [cls |-> {"totSummary"}, th |-> FALSE,
     cells |-> <<Cell(Pick), Cell(T1800), Cell(T1930), Cell(D90)>>],
    [cls |-> {"job-seg"}, th |-> FALSE,
     cells |-> <<Cell(Pick), Cell(T1800), Cell(T1930), Cell(D90)>>] }

ParsePages == {ReportPage(rows) : rows \in SeqsUpTo(RowSet, MaxRows)} \cup {BlankPage}

(***************************************************************************)
(* check_mpv_risk on bounded inputs                                        *)
(***************************************************************************)
InitRisk ==
  /\ risk_in \in [sessions : SeqsUpTo(RiskSessions, MaxSessions), code : RiskCodes]
  /\ risk_out = {}
  /\ ParseIdle
  /\ AppIdle
  /\ AuxIdle

CheckMpvRisk ==
  /\ risk_out = {}
  /\ risk_out' = {check_mpv_risk(risk_in.sessions, risk_in.code)}
  /\ UNCHANGED <<risk_in, parseVars, appVars, auxVars>>

NextRisk == CheckMpvRisk

SpecRisk == InitRisk /\ [][NextRisk]_vars

\* some session is classified to a restricted path other than the target
WorkedOther(sessions, target) ==
  \E i \in DOMAIN sessions :
    /\ classify_fclm_session(sessions[i].title) # NONE
    /\ classify_fclm_session(sessions[i].title) # target

\* the minutes of the sessions classified to one path
RECURSIVE ClassifiedMinutes(_, _)
ClassifiedMinutes(sessions, path) ==
  IF sessions = <<>> THEN 0
  ELSE ClassifiedMinutes(Tail(sessions), path)
       + (IF classify_fclm_session(Head(sessions).title) = path
          THEN Head(sessions).duration_minutes ELSE 0)

\* C1: with a resolved target, a worked restricted path other than the target
\* gives has_risk with reason PATH_SWITCH, whatever the minutes on either path.
C1_SwitchBeforeTime ==
  \A r \in risk_out :
    (r.target_path # NONE /\ WorkedOther(risk_in.sessions, r.target_path))
      => (r.has_risk /\ r.reason = "PATH_SWITCH")

\* ten minutes on Water Spider and 270 on the target C-Returns_EndofLine
C1_Witness ==
  \E r \in risk_out :
    /\ r.target_path = CretEOL
    /\ ClassifiedMinutes(risk_in.sessions, WaterSpider) = 10 * Scale
    /\ ClassifiedMinutes(risk_in.sessions, CretEOL) >= 270 * Scale
    /\ r.reason = "PATH_SWITCH"

\* C2: with a resolved target and no other worked path, the result is
\* TIME_EXCEEDED exactly when the target's minutes m are >= 270; below that there
\* is no risk, remaining_minutes = 270 - m and current_minutes = m when m > 0,
\* and remaining_minutes is not set when m = 0.
C2_TimeThreshold ==
  \A r \in risk_out :
    LET m == ClassifiedMinutes(risk_in.sessions, r.target_path)
    IN  (r.target_path # NONE /\ ~WorkedOther(risk_in.sessions, r.target_path))
          => /\ (r.reason = "TIME_EXCEEDED") <=> (m >= 270 * Scale)
             /\ r.has_risk <=> (m >= 270 * Scale)
             /\ (m < 270 * Scale /\ m > 0)
                  => /\ r.remaining_minutes = {270 * Scale - m}
                     /\ r.current_minutes = {m}
             /\ m = 0 => r.remaining_minutes = {}

\* 269 minutes on the target leave one minute
C2_Witness ==
  \E r \in risk_out :
    /\ r.target_path = WaterSpider
    /\ ~WorkedOther(risk_in.sessions, WaterSpider)
    /\ ClassifiedMinutes(risk_in.sessions, WaterSpider) = 269 * Scale
    /\ ~r.has_risk
    /\ r.remaining_minutes = {1 * Scale}

(***************************************************************************)
(* _parse_time_details on bounded inputs                                   *)
(***************************************************************************)
InitParse ==
  /\ parse_in \in [html : ParsePages, employee_id : {Badge101}]
  /\ parse_out = {}
  /\ consolidated = {}
  /\ session_times = {}
  /\ RiskIdle
  /\ AppIdle
  /\ AuxIdle

ParseTimeDetails ==
  /\ parse_out = {}
  /\ parse_out' = {parse_time_details(parse_in.html, parse_in.employee_id)}
  /\ UNCHANGED <<parse_in, consolidated, session_times, riskVars, appVars, auxVars>>

\* what is made of the parsed sessions: the consolidation loop of
\* _display_fclm_employee, and compute_fclm_path_times on the same list
DisplayParsed ==
  /\ consolidated = {}
  /\ \E r \in parse_out :
       /\ consolidated' = {Consolidate(r.sessions, Len(r.sessions))}
       /\ session_times' = {compute_fclm_path_times(r.sessions)}
  /\ UNCHANGED <<parse_in, parse_out, riskVars, appVars, auxVars>>

NextParse == ParseTimeDetails \/ DisplayParsed

SpecParse == InitParse /\ [][NextParse]_vars

\* the rows of the page that was parsed
InRows == IF parse_in.html.ganttTable = {} THEN <<>>
          ELSE CHOOSE rows \in parse_in.html.ganttTable : TRUE

\* a row the parser reads a titled activity from
TitledRow(row) == ~RowSkipped(row) /\ ~TitleDropped(RowFields(row).title)

\* the indices of the titled rows that are function-seg rows, and of the others
FunctionRowsAt == {i \in DOMAIN InRows : TitledRow(InRows[i]) /\ "function-seg" \in InRows[i].cls}

SessionRowsAt == {i \in DOMAIN InRows : TitledRow(InRows[i]) /\ "function-seg" \notin InRows[i].cls}

RECURSIVE SumOver(_, _)
SumOver(f, S) ==
  IF S = {} THEN 0
  ELSE LET x == CHOOSE y \in S : TRUE IN f[x] + SumOver(f, S \ {x})

\* the function-seg minutes of one title in the page
FunctionTotal(title) ==
  SumOver([i \in DOMAIN InRows |-> parse_fclm_duration(RowFields(InRows[i]).duration)],
          {i \in FunctionRowsAt : RowFields(InRows[i]).title = title})

\* the minutes of the sessions of one title whose row_type is in kinds
KindMinutes(sessions, title, kinds) ==
  SumOver([i \in DOMAIN sessions |-> sessions[i].duration_minutes],
          {i \in DOMAIN sessions : sessions[i].title = title /\ sessions[i].row_type \in kinds})

CorrectionsAt(sessions, title) ==
  {i \in DOMAIN sessions : sessions[i].title = title /\ sessions[i].row_type = "correction"}

OpenRowsAt == {i \in SessionRowsAt : IsOpen(RowSession(InRows[i]))}

\* C8 (as claimed): with several open rows, current_activity is the first of
\* them in document order and is_clocked_in is true.
C8_FirstOpenRowKept ==
  \A r \in parse_out :
    OpenRowsAt # {}
      => /\ r.current_activity =
              {RowSession(InRows[CHOOSE i \in OpenRowsAt : \A j \in OpenRowsAt : i <= j])}
         /\ r.is_clocked_in

\* C8 (amended): with several open rows, current_activity is the last of them
\* in document order (each later open row replaces it) and is_clocked_in is true.
C8_LastOpenRowKept ==
  \A r \in parse_out :
    OpenRowsAt # {}
      => /\ r.current_activity =
              {RowSession(InRows[CHOOSE i \in OpenRowsAt : \A j \in OpenRowsAt : j <= i])}
         /\ r.is_clocked_in

\* two open rows that give different sessions have been parsed
C8_Witness ==
  \E r \in parse_out :
    \E i, j \in OpenRowsAt :
      /\ i < j
      /\ RowSession(InRows[i]) # RowSession(InRows[j])
      /\ r.current_activity = {RowSession(InRows[j])}
      /\ r.is_clocked_in

\* the sessions that are not corrections, in order
RowSessionsOf(sessions) == SelectSeq(sessions, LAMBDA x : x.row_type # "correction")

\* the i-th smallest element of a set of numbers
RECURSIVE Sorted(_)
Sorted(S) ==
  IF S = {} THEN <<>>
  ELSE LET m == CHOOSE x \in S : \A y \in S : x <= y IN <<m>> \o Sorted(S \ {m})

\* C9: the sessions returned, corrections apart, are exactly the sessions of the
\* titled rows that are not function-seg rows, in document order; a function-seg
\* row gives no session, and its minutes are in the function-total map.
C9_NoFunctionRowSession ==
  \A r \in parse_out :
    /\ RowSessionsOf(r.sessions) =
         [n \in 1..Cardinality(SessionRowsAt) |-> RowSession(InRows[Sorted(SessionRowsAt)[n]])]
    /\ \A k \in FunctionRowsAt :
         GetTime(ParseRows(InRows, Len(InRows)).func_seg_totals, RowFields(InRows[k]).title)
           = FunctionTotal(RowFields(InRows[k]).title)

\* a page with a function-seg row and a job row has been parsed
C9_Witness ==
  \E r \in parse_out :
    /\ FunctionRowsAt # {}
    /\ SessionRowsAt # {}
    /\ Len(RowSessionsOf(r.sessions)) = Cardinality(SessionRowsAt)

(***************************************************************************)
(* FclmClient._request, step by step                                       *)
(*                                                                         *)
(* A unit is one call of _request and of the method that made it: a        *)
(* time-details lookup on a background thread, or test_connection called   *)
(* from the settings window on the foreground.  Besides its position it    *)
(* records what it has done: the GETs issued, the calls of auto_detect,    *)
(* the assignments to self.cookie and the calls of the refresh callback.   *)
(***************************************************************************)
NewUnit(kind, ctx, client, badge, assoc_id) ==
  [kind |-> kind, ctx |-> ctx, client |-> client, badge |-> badge,
   assoc_id |-> assoc_id, pc |-> "get1",
   html1 |-> {}, resp2 |-> {}, ret |-> {}, raised |-> FALSE,
   gets |-> 0, acquires |-> 0, acquired |-> NONE,
   sets |-> 0, set_to |-> {}, cb_calls |-> <<>>]

\* line 324 raised: the exception leaves _request
AfterFirstRaise(u) == [u EXCEPT !.gets = @ + 1, !.raised = TRUE, !.pc = "done"]

\* lines 324-326: the first response, returned unless it is a login page
AfterFirstGet(u, page) ==
  [u EXCEPT !.gets  = @ + 1,
            !.html1 = {page},
            !.ret   = IF is_login_page(page) THEN {} ELSE {page},
            !.pc    = IF is_login_page(page) THEN "refresh" ELSE "done"]

\* a variant that retries although auto_detect found nothing
AfterAcquireNone_Retry(u) ==
  [u EXCEPT !.acquires = @ + 1, !.acquired = NONE, !.pc = "get2"]

\* lines 329-331: auto_detect found nothing, the login page is returned
AfterAcquireNone(u) ==
  [u EXCEPT !.acquires = @ + 1, !.acquired = NONE, !.ret = u.html1, !.pc = "done"]

\* lines 329-338: auto_detect gave a cookie; it replaces the client's and the
\* callback, if one is registered, is called with the client's new cookie
AfterAcquire(u, new_cookie, hasCallback) ==
  [u EXCEPT !.acquires = @ + 1,
            !.acquired = new_cookie,
            !.sets     = @ + 1,
            !.set_to   = {sanitize_cookie(new_cookie)},
            !.cb_calls = IF hasCallback THEN Append(@, sanitize_cookie(new_cookie)) ELSE @,
            !.pc       = "get2"]

\* a variant that refreshes again when the retry is answered by a login page
AfterRetry_Again(u, page) ==
  [u EXCEPT !.gets  = @ + 1,
            !.resp2 = {page},
            !.ret   = IF is_login_page(page) THEN {} ELSE {page},
            !.pc    = IF is_login_page(page) THEN "refresh" ELSE "done"]

\* line 340: the retry's response is returned whatever it is
AfterRetry(u, page) ==
  [u EXCEPT !.gets = @ + 1, !.resp2 = {page}, !.ret = {page}, !.pc = "done"]

\* line 340 raised
AfterRetryRaise(u) == [u EXCEPT !.gets = @ + 1, !.raised = TRUE, !.pc = "done"]

\* test_connection, lines 344-355, on a finished request
TestMessage(u) ==
  IF u.raised THEN "Connection failed"
  ELSE LET html == CHOOSE h \in u.ret : TRUE
       IN  IF is_login_page(html) THEN "Cookie expired or invalid"
           ELSE IF html.ganttChartToken \/ html.timeDetailsToken
           THEN "Connected to FCLM successfully"
           ELSE "Unexpected response"

\* _fetch of _fclm_lookup_employee, lines 1800-1805: what it hands to root.after
LookupDelivery(u, i) ==
  IF u.raised
  THEN [fn |-> "_fclm_lookup_error", unit |-> i, badge |-> u.badge,
        assoc_id |-> u.assoc_id, data |-> {}]
  ELSE [fn |-> "_display_fclm_employee", unit |-> i, badge |-> u.badge,
        assoc_id |-> u.assoc_id,
        data |-> {parse_time_details(CHOOSE h \in u.ret : TRUE, u.badge)}]

LabelUpdate == [fn |-> "_update_fclm_status_label", unit |-> 0, badge |-> <<>>,
                assoc_id |-> 0, data |-> {}]

LabelText(client) ==
  IF is_connected(client) THEN "FCLM: Connected" ELSE "FCLM: Not configured"

\* no foreground call is in progress: the event loop is free to run a handler
FgFree == \A i \in DOMAIN units : units[i].ctx = "fg" => units[i].pc = "done"

\* get_or_create_associate: the id of a badge, and the table afterwards
AssocId(badge) ==
  IF \E i \in DOMAIN associates : associates[i] = badge
  THEN CHOOSE i \in DOMAIN associates : associates[i] = badge
  ELSE Len(associates) + 1

AssocTable(badge) ==
  IF \E i \in DOMAIN associates : associates[i] = badge
  THEN associates ELSE Append(associates, badge)

\* what the end of a unit's request does besides the unit itself: a lookup
\* hands its result to root.after; test_connection returns its message to the
\* settings window, which shows it in its own status line
Finish(i, u, queue) ==
  /\ units' = [units EXCEPT ![i] = u]
  /\ after_queue' = IF u.pc = "done" /\ u.kind = "lookup"
                    THEN Append(queue, LookupDelivery(u, i)) ELSE queue

(***************************************************************************)
(* The application: bounded inputs                                         *)
(***************************************************************************)
MaxUnits == 2

MaxClients == 2

LoginPage == [BlankPage EXCEPT !.midway = TRUE]

EmptyReport == ReportPage(<<>>)

ActivityReport == ReportPage(<<JobRow(WaterSpider, <<>>, D90)>>)

\* what the portal may answer a GET with
Bodies == {LoginPage, EmptyReport, ActivityReport}

\* the cookie found in the configuration file at start
InitCookies == {<<" ">>, <<"a", ELLIPSIS>>}

\* what the operator may have typed in the cookie field
SettingsTexts == {<<"s", ELLIPSIS, " ">>, <<" ">>}

\* what auto_detect may return when it finds a cookie
BrowserCookies == {<<"b", ELLIPSIS>>, <<ELLIPSIS>>}

Badge202 == <<"2","0","2">>

Badges == {Badge101, Badge202}

LookingUp(badge) ==
  [kind |-> "Looking up in FCLM", badge |-> badge, paths |-> {}, current |-> <<>>, hot |-> {}]

LookupFailed(badge) ==
  [kind |-> "FCLM lookup failed", badge |-> badge, paths |-> {}, current |-> <<>>, hot |-> {}]

\* refresh_view: the table, hours and status of the local sessions of the
\* associate; what they hold comes from the local store and the clock
LocalView(assoc_id) ==
  [source |-> "local", assoc |-> assoc_id, tree |-> <<>>, indirect |-> 0,
   status |-> [kind |-> "local sessions", badge |-> associates[assoc_id],
               paths |-> {}, current |-> <<>>, hot |-> {}]]

\* _display_fclm_employee
FclmView(data, assoc_id) ==
  [source |-> "fclm", assoc |-> assoc_id, tree |-> TreeRows(data),
   indirect |-> IndirectMinutes(data.sessions), status |-> DisplayStatus(data)]

Wrote(what, ctx) == writes' = writes \cup {[target |-> w, by |-> ctx] : w \in what}

(***************************************************************************)
(* The application: actions                                                *)
(***************************************************************************)
InitApp ==
  /\ config_cookie \in InitCookies
  /\ clients = <<NewClient(config_cookie, TRUE)>>
  /\ fclm = 1
  /\ associates = <<>>
  /\ current_associate_id = 0
  /\ employee_data = {}
  /\ view = EmptyView
  /\ fclm_label = LabelText(clients[1])
  /\ units = <<>>
  /\ after_queue = <<>>
  /\ shown = 0
  /\ writes = {}
  /\ RiskIdle
  /\ ParseIdle
  /\ AuxIdle

\* scan_badge, load_associate or fclm_lookup_badge with FCLM connected:
\* _fclm_lookup_employee starts a thread
LookupBadge(badge) ==
  /\ FgFree
  /\ is_connected(clients[fclm])
  /\ Len(units) < MaxUnits
  /\ view' = [view EXCEPT !.status = LookingUp(badge)]
  /\ associates' = AssocTable(badge)
  /\ current_associate_id' = AssocId(badge)
  /\ units' = Append(units, NewUnit("lookup", "bg", 0, badge, AssocId(badge)))
  /\ Wrote({"view"}, "fg")
  /\ UNCHANGED <<clients, fclm, config_cookie, employee_data, fclm_label,
                 after_queue, shown>>
  /\ UNCHANGED <<riskVars, parseVars, auxVars>>

\* scan_badge or load_associate with FCLM not connected: the local view
ScanLocal(badge) ==
  /\ FgFree
  /\ ~is_connected(clients[fclm])
  /\ associates' = AssocTable(badge)
  /\ current_associate_id' = AssocId(badge)
  /\ view' = [source |-> "local", assoc |-> AssocId(badge), tree |-> <<>>, indirect |-> 0,
              status |-> [kind |-> "local sessions", badge |-> badge,
                          paths |-> {}, current |-> <<>>, hot |-> {}]]
  /\ shown' = 0
  /\ Wrote({"view"}, "fg")
  /\ UNCHANGED <<clients, fclm, config_cookie, employee_data, fclm_label,
                 units, after_queue>>
  /\ UNCHANGED <<riskVars, parseVars, auxVars>>

\* the first GET of a unit; a lookup thread reads self.fclm as it starts
FirstGet(i) ==
  /\ units[i].pc = "get1"
  /\ LET u == IF units[i].client = 0 THEN [units[i] EXCEPT !.client = fclm] ELSE units[i]
     IN  \/ \E page \in Bodies : Finish(i, AfterFirstGet(u, page), after_queue)
         \/ Finish(i, AfterFirstRaise(u), after_queue)
  /\ UNCHANGED <<clients, fclm, config_cookie, associates, current_associate_id,
                 employee_data, view, fclm_label, shown, writes>>
  /\ UNCHANGED <<riskVars, parseVars, auxVars>>

\* auto_detect after a login page found no cookie
RefreshNone(i) ==
  /\ units[i].pc = "refresh"
  /\ Finish(i, AfterAcquireNone(units[i]), after_queue)
  /\ UNCHANGED <<clients, fclm, config_cookie, associates, current_associate_id,
                 employee_data, view, fclm_label, shown, writes>>
  /\ UNCHANGED <<riskVars, parseVars, auxVars>>

\* auto_detect after a login page found a cookie: self.cookie is replaced and
\* App._on_cookie_refreshed, where registered, saves it and queues the banner
\* update, all in the context the unit runs in
RefreshCookie(i) ==
  /\ units[i].pc = "refresh"
  /\ \E new_cookie \in BrowserCookies :
       LET c == units[i].client
       IN  /\ clients' = [clients EXCEPT ![c].cookie = sanitize_cookie(new_cookie)]
           /\ IF clients[c].hasCallback
              THEN /\ config_cookie' = sanitize_cookie(new_cookie)
                   /\ Wrote({"config_cookie"}, units[i].ctx)
                   /\ Finish(i, AfterAcquire(units[i], new_cookie, TRUE),
                             Append(after_queue, LabelUpdate))
              ELSE /\ UNCHANGED <<config_cookie, writes>>
                   /\ Finish(i, AfterAcquire(units[i], new_cookie, FALSE), after_queue)
  /\ UNCHANGED <<fclm, associates, current_associate_id, employee_data, view,
                 fclm_label, shown>>
  /\ UNCHANGED <<riskVars, parseVars, auxVars>>

\* the retry GET
RetryGet(i) ==
  /\ units[i].pc = "get2"
  /\ \/ \E page \in Bodies : Finish(i, AfterRetry(units[i], page), after_queue)
     \/ Finish(i, AfterRetryRaise(units[i]), after_queue)
  /\ UNCHANGED <<clients, fclm, config_cookie, associates, current_associate_id,
                 employee_data, view, fclm_label, shown, writes>>
  /\ UNCHANGED <<riskVars, parseVars, auxVars>>

\* the event loop runs the oldest callback handed to root.after
RunAfter ==
  /\ FgFree
  /\ after_queue # <<>>
  /\ after_queue' = Tail(after_queue)
  /\ LET cb == Head(after_queue)
     IN  IF cb.fn = "_display_fclm_employee"
         THEN /\ employee_data' = cb.data
              /\ view' = FclmView(CHOOSE d \in cb.data : TRUE, cb.assoc_id)
              /\ shown' = cb.unit
              /\ Wrote({"employee_data", "view"}, "fg")
              /\ UNCHANGED fclm_label
         ELSE IF cb.fn = "_fclm_lookup_error"
         THEN /\ view' = IF current_associate_id # 0
                         THEN LocalView(current_associate_id)
                         ELSE [view EXCEPT !.status = LookupFailed(cb.badge)]
              /\ shown' = IF current_associate_id # 0 THEN 0 ELSE shown
              /\ Wrote({"view"}, "fg")
              /\ UNCHANGED <<employee_data, fclm_label>>
         ELSE /\ fclm_label' = LabelText(clients[fclm])
              /\ UNCHANGED <<employee_data, view, shown, writes>>
  /\ UNCHANGED <<clients, fclm, config_cookie, associates, current_associate_id, units>>
  /\ UNCHANGED <<riskVars, parseVars, auxVars>>

\* save_settings and clear_cookie: the configuration is saved and a new client
\* replaces the application's
InstallCookie(saved) ==
  /\ FgFree
  /\ Len(clients) < MaxClients
  /\ config_cookie' = saved
  /\ clients' = Append(clients, NewClient(saved, TRUE))
  /\ fclm' = Len(clients) + 1
  /\ fclm_label' = LabelText(NewClient(saved, TRUE))
  /\ Wrote({"config_cookie"}, "fg")
  /\ UNCHANGED <<associates, current_associate_id, employee_data, view, units,
                 after_queue, shown>>
  /\ UNCHANGED <<riskVars, parseVars, auxVars>>

SaveSettings == \E text \in SettingsTexts : InstallCookie(Strip(text))

ClearCookie == InstallCookie(<<>>)

\* grab_from_browser: a cookie found is saved and installed like a saved one,
\* then self.fclm.test_connection() runs on the foreground
GrabFromBrowser ==
  /\ FgFree
  /\ \/ UNCHANGED <<clients, fclm, config_cookie, fclm_label, units, writes>>
     \/ /\ Len(clients) < MaxClients
        /\ Len(units) < MaxUnits
        /\ \E cookie \in BrowserCookies :
             /\ config_cookie' = cookie
             /\ clients' = Append(clients, NewClient(cookie, TRUE))
             /\ fclm_label' = LabelText(NewClient(cookie, TRUE))
        /\ fclm' = Len(clients) + 1
        /\ units' = Append(units, NewUnit("test", "fg", Len(clients) + 1, <<>>, 0))
        /\ Wrote({"config_cookie"}, "fg")
  /\ UNCHANGED <<associates, current_associate_id, employee_data, view, after_queue, shown>>
  /\ UNCHANGED <<riskVars, parseVars, auxVars>>

\* test_connection of the settings window: a client of its own, no callback
TestConnection ==
  /\ FgFree
  /\ \E text \in SettingsTexts :
       IF Strip(text) = <<>>
       THEN UNCHANGED <<clients, units>>
       ELSE /\ Len(clients) < MaxClients
            /\ Len(units) < MaxUnits
            /\ clients' = Append(clients, NewClient(Strip(text), FALSE))
            /\ units' = Append(units, NewUnit("test", "fg", Len(clients) + 1, <<>>, 0))
  /\ UNCHANGED <<fclm, config_cookie, associates, current_associate_id, employee_data,
                 view, fclm_label, after_queue, shown, writes>>
  /\ UNCHANGED <<riskVars, parseVars, auxVars>>

NextApp ==
  \/ \E badge \in Badges : LookupBadge(badge)
  \/ \E badge \in Badges : ScanLocal(badge)
  \/ \E i \in DOMAIN units : FirstGet(i)
  \/ \E i \in DOMAIN units : RefreshNone(i)
  \/ \E i \in DOMAIN units : RefreshCookie(i)
  \/ \E i \in DOMAIN units : RetryGet(i)
  \/ RunAfter
  \/ SaveSettings
  \/ ClearCookie
  \/ GrabFromBrowser
  \/ TestConnection

SpecApp == InitApp /\ [][NextApp]_vars

(***************************************************************************)
(* float(text) and list.sort on the hours of the function rollup           *)
(*                                                                         *)
(* Hours are kept in tenths.  float accepts, blanks and sign apart, the    *)
(* words nan, inf and infinity in any case besides decimal numerals; the   *)
(* numerals read here have at most one decimal.                            *)
(***************************************************************************)
HScale == 10

Num(v) == [kind |-> "num", v |-> v]

NaN == [kind |-> "nan", v |-> 0]

Inf(sign) == [kind |-> "inf", v |-> sign]

\* the numeral after its sign: digits, with at most one point among them
IsDecimal(body) ==
  IF HasChar(body, ".")
  THEN /\ FirstPart(body, ".") = <<>> \/ AllDigits(FirstPart(body, "."))
       /\ AfterFirst(body, ".") = <<>> \/ AllDigits(AfterFirst(body, "."))
       /\ Len(body) > 1
  ELSE AllDigits(body)

DecimalValue(body) ==
  IF HasChar(body, ".")
  THEN (IF FirstPart(body, ".") = <<>> THEN 0 ELSE DigitsValue(FirstPart(body, "."))) * HScale
       + (IF AfterFirst(body, ".") = <<>> THEN 0 ELSE DigitValue(Head(AfterFirst(body, "."))))
  ELSE DigitsValue(body) * HScale

Unsigned(t) == IF t # <<>> /\ Head(t) \in {"-", "+"} THEN Tail(t) ELSE t

SignOf(t) == IF t # <<>> /\ Head(t) = "-" THEN -1 ELSE 1

\* float(text): {} where it raises ValueError, {value} otherwise
FloatOfStripped(t) ==
  IF Unsigned(t) = <<"n","a","n">> THEN {NaN}
  ELSE IF Unsigned(t) \in {<<"i","n","f">>, <<"i","n","f","i","n","i","t","y">>}
  THEN {Inf(SignOf(t))}
  ELSE IF IsDecimal(Unsigned(t)) THEN {Num(SignOf(t) * DecimalValue(Unsigned(t)))}
  ELSE {}

float_parse(text) == FloatOfStripped(Lower(Strip(text)))

\* a < b on floats: false whenever one of them is nan
FloatLess(a, b) ==
  /\ a.kind # "nan"
  /\ b.kind # "nan"
  /\ IF a.kind = "inf" THEN a.v = -1 /\ ~(b.kind = "inf" /\ b.v = -1)
     ELSE IF b.kind = "inf" THEN b.v = 1
     ELSE a.v < b.v

FloatAdd(a, b) ==
  IF a.kind = "nan" \/ b.kind = "nan" THEN NaN
  ELSE IF a.kind = "inf" THEN (IF b.kind = "inf" /\ b.v # a.v THEN NaN ELSE a)
  ELSE IF b.kind = "inf" THEN b
  ELSE Num(a.v + b.v)

\* hours == 0
IsZero(a) == a.kind = "num" /\ a.v = 0

\* hours * 60
Times60(a) == IF a.kind = "num" THEN Num(a.v * 60) ELSE a

Reverse(a) == [k \in DOMAIN a |-> a[Len(a) + 1 - k]]

\* list.sort of CPython for a short list (one run, binary insertion), on
\* the keys by < alone.  count_run: the length of the run the list starts
\* with, strictly descending or else non-descending
RECURSIVE RunDescending(_, _)
RunDescending(a, n) ==
  IF n < Len(a) /\ FloatLess(a[n + 1].hours, a[n].hours) THEN RunDescending(a, n + 1) ELSE n

RECURSIVE RunAscending(_, _)
RunAscending(a, n) ==
  IF n < Len(a) /\ ~FloatLess(a[n + 1].hours, a[n].hours) THEN RunAscending(a, n + 1) ELSE n

\* the place binarysort finds for the pivot among a[1..r-1], from l on
RECURSIVE BinaryPlace(_, _, _, _)
BinaryPlace(a, pivot, l, r) ==
  IF l >= r THEN l
  ELSE IF FloatLess(pivot.hours, a[l + ((r - l) \div 2)].hours)
       THEN BinaryPlace(a, pivot, l, l + ((r - l) \div 2))
       ELSE BinaryPlace(a, pivot, l + ((r - l) \div 2) + 1, r)

InsertAt(a, k, x) == SubSeq(a, 1, k - 1) \o <<x>> \o SubSeq(a, k, Len(a))

\* a[1..start-1] is in order; the elements from start on are inserted
RECURSIVE BinarySort(_, _)
BinarySort(a, start) ==
  IF start > Len(a) THEN a
  ELSE BinarySort(InsertAt(SubSeq(a, 1, start - 1),
                           BinaryPlace(a, a[start], 1, start),
                           a[start]) \o SubSeq(a, start + 1, Len(a)),
                  start + 1)

SortRun(a, n) ==
  BinarySort(Reverse(SubSeq(a, 1, n)) \o SubSeq(a, n + 1, Len(a)), n + 1)

SortAscending(a) ==
  IF Len(a) < 2 THEN a
  ELSE IF FloatLess(a[2].hours, a[1].hours)
  THEN SortRun(a, RunDescending(a, 2))
  ELSE BinarySort(a, RunAscending(a, 2) + 1)

\* .sort(key=lambda a: a["hours"], reverse=True): the list is reversed,
\* sorted ascending and reversed again
SortByHoursDescending(a) == Reverse(SortAscending(Reverse(a)))

(***************************************************************************)
(* _parse_function_rollup                                                  *)
(*                                                                         *)
(* A rollup page is the sequence of its <table> fragments; a fragment is   *)
(* its text outside the rows and its rows, a row the sequence of its <td>  *)
(* cells.  The result dict is kept as the function from the index of a     *)
(* path in FCLM_RESTRICTED_PATHS to its list.                              *)
(***************************************************************************)
FCLM_PROCESS_IDS ==
  <<CretSupport, CretProcessed, VReturns, WhdGrading, WhdGradingSupport>>

\* path in table_html: in the text around the rows or in one of the cells
FragmentHas(table, path) ==
  \/ Contains(table.text, path)
  \/ \E r \in DOMAIN table.rows : \E c \in DOMAIN table.rows[r] :
       \/ Contains(table.rows[r][c].plain, path)
       \/ Contains(table.rows[r][c].link, path)

\* the index of the first configured path found in the fragment, 0 for none
FirstPathIn(table) ==
  IF \E i \in DOMAIN FCLM_RESTRICTED_PATHS : FragmentHas(table, FCLM_RESTRICTED_PATHS[i])
  THEN CHOOSE i \in DOMAIN FCLM_RESTRICTED_PATHS :
         /\ FragmentHas(table, FCLM_RESTRICTED_PATHS[i])
         /\ \A j \in 1..(i - 1) : ~FragmentHas(table, FCLM_RESTRICTED_PATHS[j])
  ELSE 0

PathIndex(path) == CHOOSE i \in DOMAIN FCLM_RESTRICTED_PATHS : FCLM_RESTRICTED_PATHS[i] = path

\* lines 550-560: the path of a fragment, Water Spider of a WHD process being
\* WHD Waterspider
TablePath(table, process_name) ==
  IF FirstPathIn(table) = PathIndex(WaterSpider) /\ Contains(process_name, <<"W","H","D">>)
  THEN PathIndex(WhdWaterspider)
  ELSE FirstPathIn(table)

\* lines 586-593: the last cell, from the end down to the fourth, that float reads
RECURSIVE LastNumeric(_, _)
LastNumeric(cells, i) ==
  IF i < 4 THEN Num(0)
  ELSE IF float_parse(strip_html(cells[i])) # {}
  THEN CHOOSE h \in float_parse(strip_html(cells[i])) : TRUE
  ELSE LastNumeric(cells, i - 1)

\* lines 596-602: the sum of the cells from the fifth to the last but one that
\* float reads
RECURSIVE MiddleSum(_, _)
MiddleSum(cells, i) ==
  IF i < 5 THEN Num(0)
  ELSE IF float_parse(strip_html(cells[i])) # {}
  THEN FloatAdd(MiddleSum(cells, i - 1), CHOOSE h \in float_parse(strip_html(cells[i])) : TRUE)
  ELSE MiddleSum(cells, i - 1)

\* a variant that never sums the interior cells
HoursOrSum_AsRead(cells, hours) == hours

\* lines 596-602: a value of 0 is replaced by the sum of the interior cells
HoursOrSum(cells, hours) == IF IsZero(hours) THEN MiddleSum(cells, Len(cells) - 1) ELSE hours

RowHours(cells) == HoursOrSum(cells, LastNumeric(cells, Len(cells)))

AMZN == <<"A","M","Z","N">>

TEMP == <<"T","E","M","P">>

\* lines 570-579: the row is a data row with a badge id of digits
IsDataRow(cells) ==
  /\ Len(cells) >= 5
  /\ strip_html(cells[1]) \in {AMZN, TEMP}
  /\ AllDigits(strip_html(cells[2]))

\* lines 604-609
RollupEntry(cells, hours) ==
  [badge_id |-> strip_html(cells[2]), name |-> strip_html(cells[3]),
   hours |-> hours, minutes |-> Times60(hours)]

HasBadge(list, badge_id) == \E k \in DOMAIN list : list[k].badge_id = badge_id

\* a variant that appends a row whatever badges were seen
RollupRow_NoDedupe(list, cells) ==
  IF IsDataRow(cells) THEN Append(list, RollupEntry(cells, RowHours(cells))) ELSE list

\* lines 569-610: one row of a fragment, on the list of the fragment's path
RollupRow(list, cells) ==
  IF IsDataRow(cells) /\ ~HasBadge(list, strip_html(cells[2]))
  THEN Append(list, RollupEntry(cells, RowHours(cells)))
  ELSE list

RECURSIVE RollupRows(_, _, _)
RollupRows(list, rows, n) ==
  IF n = 0 THEN list ELSE RollupRow(RollupRows(list, rows, n - 1), rows[n])

\* lines 548-610: one fragment
RollupTableAt(result, table, p) ==
  IF p = 0 THEN result
  ELSE [result EXCEPT ![p] = RollupRows(@, table.rows, Len(table.rows))]

RollupTable(result, table, process_name) ==
  RollupTableAt(result, table, TablePath(table, process_name))

RECURSIVE RollupTables(_, _, _, _)
RollupTables(result, tables, n, process_name) ==
  IF n = 0 THEN result
  ELSE RollupTable(RollupTables(result, tables, n - 1, process_name), tables[n], process_name)

parse_function_rollup(html, process_name, result) ==
  RollupTables(result, html.tables, Len(html.tables), process_name)

(***************************************************************************)
(* fetch_all_path_aas, process by process                                  *)
(***************************************************************************)
\* a function rollup page: no login token, the fragments given
RollupPage(tables) ==
  [midway |-> FALSE, signIn |-> FALSE, loginPath |-> FALSE,
   ganttChartToken |-> FALSE, timeDetailsToken |-> FALSE, tables |-> tables]

Badge303 == <<"3","0","3">>

Badge404 == <<"4","0","4">>

\* a data row of five cells: type, badge, name, a dash and the hours
DataRow(first, badge, hours) ==
  <<Cell(first), LinkCell(badge), Cell(<<"n">> \o badge), Cell(<<"-">>), Cell(hours)>>

\* C-Returns_EndofLine with two badges and a second row for the first of them
EolTable ==
  [text |-> CretEOL,
   rows |-> << DataRow(AMZN, Badge101, <<"2",".","5">>),
               DataRow(TEMP, <<"2","0","2">>, <<"7",".","5">>),
               DataRow(AMZN, Badge101, <<"9",".","0">>) >>]

\* Water Spider: a data row, a row of another type, a row too short, a badge
\* that is no number, and a row whose last cell is 0 over two interior cells
WsTable ==
  [text |-> WaterSpider,
   rows |-> << DataRow(AMZN, Badge101, <<"1",".","0">>),
               DataRow(<<"T","o","t","a","l">>, Badge303, <<"5",".","0">>),
               <<Cell(AMZN), Cell(Badge303), Cell(<<"n">>), Cell(<<"4">>)>>,
               DataRow(TEMP, <<"a","b">>, <<"3">>),
               <<Cell(TEMP), Cell(Badge404), Cell(<<"n">>), Cell(<<"-">>),
                 Cell(<<"1",".","5">>), Cell(<<"2">>), Cell(<<"0">>)>> >>]

WhdTable ==
  [text |-> WhdWaterspider,
   rows |-> << DataRow(TEMP, Badge101, <<"3",".","0">>) >>]

\* C-Returns_EndofLine again, with hours that read as nan and hours that do
\* not read at all
EolTable2 ==
  [text |-> <<"x"," ">> \o CretEOL,
   rows |-> << DataRow(AMZN, Badge303, <<"N","a","N">>),
               DataRow(AMZN, Badge404, <<"8",".","0">>),
               DataRow(AMZN, <<"5","0","5">>, <<"n","/","a">>) >>]

\* a fragment naming no configured path
OtherTable ==
  [text |-> Pick, rows |-> << DataRow(AMZN, Badge101, <<"6",".","0">>) >>]

RollupPages ==
  { RollupPage(<<>>), RollupPage(<<EolTable>>), RollupPage(<<WsTable, WhdTable>>),
    RollupPage(<<EolTable2, OtherTable>>) }

\* all_aas = {p: [] for p in FCLM_RESTRICTED_PATHS}
NewRollup ==
  [pc |-> "fetch", idx |-> 1,
   all_aas |-> [p \in DOMAIN FCLM_RESTRICTED_PATHS |-> <<>>],
   errors |-> <<>>, requested |-> <<>>, outcomes |-> <<>>, seen |-> <<>>]

\* the data rows of a page in document order, each with the path of its
\* fragment: what the parser is given to choose from
RECURSIVE DataRowsOf(_, _, _)
DataRowsOf(rows, p, n) ==
  IF n = 0 THEN <<>>
  ELSE DataRowsOf(rows, p, n - 1)
       \o (IF p # 0 /\ IsDataRow(rows[n])
           THEN <<[path |-> p, cells |-> rows[n],
                  entry |-> RollupEntry(rows[n], RowHours(rows[n]))]>>
           ELSE <<>>)

RECURSIVE DataRowsOfTables(_, _, _)
DataRowsOfTables(tables, n, process_name) ==
  IF n = 0 THEN <<>>
  ELSE DataRowsOfTables(tables, n - 1, process_name)
       \o DataRowsOf(tables[n].rows, TablePath(tables[n], process_name), Len(tables[n].rows))

\* the request of a process raised, lines 532-533
AfterRaise(r) ==
  [r EXCEPT !.idx = @ + 1,
            !.requested = Append(@, FCLM_PROCESS_IDS[r.idx]),
            !.outcomes = Append(@, "raise"),
            !.errors = Append(@, [process |-> FCLM_PROCESS_IDS[r.idx], what |-> "exception"]),
            !.pc = IF r.idx = Len(FCLM_PROCESS_IDS) THEN "sort" ELSE "fetch"]

\* the request returned a page, lines 527-531
AfterPage(r, html) ==
  IF is_login_page(html)
  THEN [r EXCEPT !.idx = @ + 1,
                 !.requested = Append(@, FCLM_PROCESS_IDS[r.idx]),
                 !.outcomes = Append(@, "login"),
                 !.errors = Append(@, [process |-> FCLM_PROCESS_IDS[r.idx],
                                       what |-> "Cookie expired"]),
                 !.pc = IF r.idx = Len(FCLM_PROCESS_IDS) THEN "sort" ELSE "fetch"]
  ELSE [r EXCEPT !.idx = @ + 1,
                 !.requested = Append(@, FCLM_PROCESS_IDS[r.idx]),
                 !.outcomes = Append(@, "page"),
                 !.all_aas = parse_function_rollup(html, FCLM_PROCESS_IDS[r.idx], @),
                 !.seen = @ \o DataRowsOfTables(html.tables, Len(html.tables),
                                                FCLM_PROCESS_IDS[r.idx]),
                 !.pc = IF r.idx = Len(FCLM_PROCESS_IDS) THEN "sort" ELSE "fetch"]

\* lines 535-541
AfterSort(r) ==
  [r EXCEPT !.all_aas = [p \in DOMAIN r.all_aas |-> SortByHoursDescending(r.all_aas[p])],
            !.pc = "done"]

InitRollup ==
  /\ rollup = NewRollup
  /\ detect = <<>>
  /\ probe = <<>>
  /\ classified = <<>>
  /\ store = <<>>
  /\ RiskIdle
  /\ ParseIdle
  /\ AppIdle

\* one turn of the loop over FCLM_PROCESS_IDS
FetchProcess ==
  /\ rollup.pc = "fetch"
  /\ \/ rollup' = AfterRaise(rollup)
     \/ \E html \in RollupPages \cup {LoginPage} : rollup' = AfterPage(rollup, html)
  /\ UNCHANGED <<riskVars, parseVars, appVars, detect, probe, classified, store>>

SortAndReturn ==
  /\ rollup.pc = "sort"
  /\ rollup' = AfterSort(rollup)
  /\ UNCHANGED <<riskVars, parseVars, appVars, detect, probe, classified, store>>

NextRollup == FetchProcess \/ SortAndReturn

SpecRollup == InitRollup /\ [][NextRollup]_vars

(***************************************************************************)
(* test_connection and one _request, step by step                          *)
(*                                                                         *)
(* One client makes one call of test_connection.  The pages are every      *)
(* combination of the five tokens the client looks for, and the refresh    *)
(* callback is any callable: it may raise.                                 *)
(***************************************************************************)
ProbePages ==
  { [BlankPage EXCEPT !.midway = a, !.signIn = b, !.loginPath = c,
                      !.ganttChartToken = d, !.timeDetailsToken = e] :
      a \in BOOLEAN, b \in BOOLEAN, c \in BOOLEAN, d \in BOOLEAN, e \in BOOLEAN }

NewProbe(hasCallback) ==
  [u |-> NewUnit("test", "fg", 1, <<>>, 0),
   cookie |-> sanitize_cookie(<<"a", ELLIPSIS>>),
   hasCallback |-> hasCallback, cb_raised |-> FALSE, result |-> {}]

\* a variant in which an exception of the callback leaves _request
AfterRefresh_Propagate(p, new_cookie, raises) ==
  IF p.hasCallback /\ raises
  THEN [p EXCEPT !.u = [AfterAcquire(p.u, new_cookie, TRUE) EXCEPT !.raised = TRUE,
                                                                   !.pc = "done"],
                 !.cookie = sanitize_cookie(new_cookie),
                 !.cb_raised = TRUE]
  ELSE [p EXCEPT !.u = AfterAcquire(p.u, new_cookie, p.hasCallback),
                 !.cookie = sanitize_cookie(new_cookie)]

\* lines 333-338: the new cookie is set, the callback is called inside
\* try/except and what it raises is passed over
AfterRefresh(p, new_cookie, raises) ==
  [p EXCEPT !.u = AfterAcquire(p.u, new_cookie, p.hasCallback),
            !.cookie = sanitize_cookie(new_cookie),
            !.cb_raised = p.hasCallback /\ raises]

\* a variant that looks for the report tokens before the login tokens
test_connection_TokensFirst(u) ==
  IF u.raised THEN [ok |-> FALSE, message |-> "Connection failed"]
  ELSE IF \E h \in u.ret : h.ganttChartToken \/ h.timeDetailsToken
  THEN [ok |-> TRUE, message |-> "Connected to FCLM successfully"]
  ELSE [ok |-> FALSE, message |-> TestMessage(u)]

\* test_connection, lines 342-355: (success, message) of a finished request
test_connection(u) ==
  [ok |-> TestMessage(u) = "Connected to FCLM successfully", message |-> TestMessage(u)]

InitProbe ==
  /\ \E hasCallback \in BOOLEAN : probe = NewProbe(hasCallback)
  /\ detect = <<>>
  /\ rollup = <<>>
  /\ classified = <<>>
  /\ store = <<>>
  /\ RiskIdle
  /\ ParseIdle
  /\ AppIdle

ProbeFirstGet ==
  /\ probe.u.pc = "get1"
  /\ \/ \E page \in ProbePages : probe' = [probe EXCEPT !.u = AfterFirstGet(@, page)]
     \/ probe' = [probe EXCEPT !.u = AfterFirstRaise(@)]
  /\ UNCHANGED <<riskVars, parseVars, appVars, detect, rollup, classified, store>>

ProbeRefresh ==
  /\ probe.u.pc = "refresh"
  /\ \/ probe' = [probe EXCEPT !.u = AfterAcquireNone(@)]
     \/ \E new_cookie \in BrowserCookies : \E raises \in BOOLEAN :
          probe' = AfterRefresh(probe, new_cookie, raises)
  /\ UNCHANGED <<riskVars, parseVars, appVars, detect, rollup, classified, store>>

ProbeRetry ==
  /\ probe.u.pc = "get2"
  /\ \/ \E page \in ProbePages : probe' = [probe EXCEPT !.u = AfterRetry(@, page)]
     \/ probe' = [probe EXCEPT !.u = AfterRetryRaise(@)]
  /\ UNCHANGED <<riskVars, parseVars, appVars, detect, rollup, classified, store>>

\* _request is over: test_connection returns
ProbeReturn ==
  /\ probe.u.pc = "done"
  /\ probe.result = {}
  /\ probe' = [probe EXCEPT !.result = {test_connection(probe.u)}]
  /\ UNCHANGED <<riskVars, parseVars, appVars, detect, rollup, classified, store>>

NextProbe == ProbeFirstGet \/ ProbeRefresh \/ ProbeRetry \/ ProbeReturn

SpecProbe == InitProbe /\ [][NextProbe]_vars

(***************************************************************************)
(* classify_fclm_session on titles put together from fragments             *)
(***************************************************************************)
MaxFragments == 2

TitleFragments ==
  { <<"W","a","t","e","r">>, <<" ">>, <<"S","p","i","d","e","r">>, <<"_">>,
    <<"W","H","D">>, <<"s","p","i","d","e","r">>, <<"x">>, CretEOL, <<"e","o","l">> }

RECURSIVE Concat(_, _)
Concat(parts, n) == IF n = 0 THEN <<>> ELSE Concat(parts, n - 1) \o parts[n]

\* the empty title, every fragment, every two fragments in a row, ..., and
\* the configured names themselves
ClassifyTitles ==
  {Concat(parts, Len(parts)) : parts \in SeqsUpTo(TitleFragments, MaxFragments)}
    \cup {FCLM_RESTRICTED_PATHS[i] : i \in DOMAIN FCLM_RESTRICTED_PATHS}

InitClassify ==
  /\ \E title \in ClassifyTitles : classified = [title |-> title, result |-> {}]
  /\ detect = <<>>
  /\ rollup = <<>>
  /\ probe = <<>>
  /\ store = <<>>
  /\ RiskIdle
  /\ ParseIdle
  /\ AppIdle

Classify ==
  /\ classified.result = {}
  /\ classified' = [classified EXCEPT !.result = {classify_fclm_session(classified.title)}]
  /\ UNCHANGED <<riskVars, parseVars, appVars, detect, rollup, probe, store>>

NextClassify == Classify

SpecClassify == InitClassify /\ [][NextClassify]_vars

(***************************************************************************)
(* The local session store: start_session and end_active_session           *)
(*                                                                         *)
(* The sessions table is the sequence of its rows in order of id; end_time  *)
(* is {} for NULL.  The calls come from the foreground only, one after the *)
(* other, and the time a call reads is the number of the call.             *)
(***************************************************************************)
MaxCalls == 4

StoreAssociates == {1, 2}

WorkTypes == {"DIRECT", "INDIRECT"}

\* the rows the SELECT of end_active_session matches
OpenSessions(rows, associate_id) ==
  {i \in DOMAIN rows : rows[i].associate_id = associate_id /\ rows[i].end_time = {}}

\* lines 195-204: the tables end_active_session can leave; fetchone takes one
\* of the matching rows
end_active_session(rows, associate_id, now) ==
  IF OpenSessions(rows, associate_id) = {} THEN {rows}
  ELSE {[rows EXCEPT ![i].end_time = {now}] : i \in OpenSessions(rows, associate_id)}

\* lines 208-216: the INSERT of start_session
InsertSession(rows, associate_id, now, work_type) ==
  Append(rows, [id |-> Len(rows) + 1, associate_id |-> associate_id,
                start_time |-> now, end_time |-> {}, work_type |-> work_type])

\* a variant that inserts without ending the open session
start_session_NoEnd(rows, associate_id, now, work_type) ==
  {InsertSession(rows, associate_id, now, work_type)}

\* lines 206-216
start_session(rows, associate_id, now, work_type) ==
  {InsertSession(ended, associate_id, now, work_type) :
     ended \in end_active_session(rows, associate_id, now)}

InitStore ==
  /\ store = [rows |-> <<>>, calls |-> 0, last |-> <<>>]
  /\ detect = <<>>
  /\ rollup = <<>>
  /\ probe = <<>>
  /\ classified = <<>>
  /\ RiskIdle
  /\ ParseIdle
  /\ AppIdle

\* start_direct and start_indirect of the application, with an associate loaded
StartSession(associate_id, work_type) ==
  /\ store.calls < MaxCalls
  /\ \E rows \in start_session(store.rows, associate_id, store.calls + 1, work_type) :
       store' = [rows |-> rows, calls |-> store.calls + 1,
                 last |-> [fn |-> "start_session", associate_id |-> associate_id]]
  /\ UNCHANGED <<riskVars, parseVars, appVars, detect, rollup, probe, classified>>

\* end_current of the application
EndActiveSession(associate_id) ==
  /\ store.calls < MaxCalls
  /\ \E rows \in end_active_session(store.rows, associate_id, store.calls + 1) :
       store' = [rows |-> rows, calls |-> store.calls + 1,
                 last |-> [fn |-> "end_active_session", associate_id |-> associate_id]]
  /\ UNCHANGED <<riskVars, parseVars, appVars, detect, rollup, probe, classified>>

NextStore ==
  \/ \E a \in StoreAssociates : \E w \in WorkTypes : StartSession(a, w)
  \/ \E a \in StoreAssociates : EndActiveSession(a)

SpecStore == InitStore /\ [][NextStore]_vars

(***************************************************************************)
(* BrowserCookieReader.auto_detect and the readers, step by step           *)
(*                                                                         *)
(* What the file system, the cookie databases and the decryption give is   *)
(* chosen by the environment at the step that reads it.  A cookie is kept  *)
(* as the sequence of its name=value pairs, each written as the browser,   *)
(* profile, domain and row it was read from; no cookie (None) is <<>>.     *)
(***************************************************************************)
MaxCookieRows == 1

\* the (name, method) list of auto_detect for a platform
Browsers(platform) ==
  IF platform = "win32" THEN <<"Edge", "Chrome", "Firefox">> ELSE <<"Firefox">>

Platforms == {"win32", "linux"}

\* FCLM_DOMAINS
FCLM_DOMAINS == <<".amazon.com", "fclm-portal.amazon.com">>

\* the profiles _read_chromium tries
ChromiumProfiles == <<"Default", "Profile 1", "Profile 2">>

\* a row of a cookie query: its value is there, is empty (or decrypts to
\* nothing), or makes the decryption raise
RowKinds == {"value", "empty", "bad"}

NewDetect(platform) ==
  [platform |-> platform, pc |-> "next", b |-> 1, p |-> 0, d |-> 0,
   conn |-> "none", scratch |-> FALSE, left |-> 0, copies |-> 0,
   cookies |-> <<>>, exc |-> {},
   calls |-> <<>>, errors |-> <<>>, result |-> {}]

BrowserOf(s) == Browsers(s.platform)[s.b]

IsChromium(s) == BrowserOf(s) \in {"Edge", "Chrome"}

\* lines 669-682 once a reader has returned or raised: a cookie ends the
\* search, anything else moves on to the next browser; after the last one the
\* failure is returned with the errors collected
ReaderExit(s, kind, cookie, reason, errors) ==
  IF kind = "cookie"
  THEN [s EXCEPT !.pc = "done",
                 !.calls = Append(@, [name |-> BrowserOf(s), kind |-> kind]),
                 !.result = {[cookie |-> cookie, browser |-> BrowserOf(s), errors |-> <<>>]}]
  ELSE IF s.b = Len(Browsers(s.platform))
  THEN [s EXCEPT !.pc = "done",
                 !.calls = Append(@, [name |-> BrowserOf(s), kind |-> kind]),
                 !.errors = errors,
                 !.result = {[cookie |-> <<>>, browser |-> "", errors |-> errors]}]
  ELSE [s EXCEPT !.pc = "next", !.b = @ + 1, !.p = 0, !.d = 0,
                 !.calls = Append(@, [name |-> BrowserOf(s), kind |-> kind]),
                 !.errors = errors]

\* a variant of auto_detect that gives up at the first reader that raises
ReaderDone_StopOnError(s, kind, cookie, reason) ==
  IF kind = "raise"
  THEN [s EXCEPT !.pc = "done",
                 !.calls = Append(@, [name |-> BrowserOf(s), kind |-> kind]),
                 !.errors = Append(@, [name |-> BrowserOf(s), reason |-> reason]),
                 !.result = {[cookie |-> <<>>, browser |-> "",
                              errors |-> Append(s.errors, [name |-> BrowserOf(s),
                                                           reason |-> reason])]}]
  ELSE ReaderExit(s, kind, cookie, reason, s.errors)

\* the try/except around method() in auto_detect, lines 669-677
ReaderDone(s, kind, cookie, reason) ==
  ReaderExit(s, kind, cookie, reason,
             IF kind = "raise"
             THEN Append(s.errors, [name |-> BrowserOf(s), reason |-> reason])
             ELSE s.errors)

\* the reader returns what it read: _read_chromium goes on to the next
\* profile when a profile gave no cookie (lines 750-752), _read_firefox
\* returns what _read_sqlite_cookies gave (line 712)
ReaderReturns(s) ==
  IF s.cookies # <<>> THEN ReaderDone(s, "cookie", s.cookies, "")
  ELSE IF IsChromium(s) THEN [s EXCEPT !.pc = "profile", !.p = @ + 1]
  ELSE ReaderDone(s, "none", <<>>, "")

\* the rows of one query, lines 786-789 and 857-859: a value that cannot be
\* decrypted raises, the others are appended where they are not empty
RowsRaise(rows) == \E k \in DOMAIN rows : rows[k] = "bad"

RowCookies(s, rows) ==
  [k \in 1..Len(SelectSeq(rows, LAMBDA r : r = "value")) |->
     <<BrowserOf(s), s.p, s.d, k>>]

\* the finally clause, lines 792-796 and 862-866: os.unlink(tmp), whose
\* OSError is passed over; on Windows a file that a connection still holds
\* open cannot be removed.  Then the exception, if one is pending, goes on
\* to auto_detect, otherwise the reader has its value
AfterUnlink(s) ==
  IF s.exc # {}
  THEN ReaderDone([s EXCEPT !.scratch = FALSE,
                            !.left = IF s.conn = "open" /\ s.platform = "win32"
                                     THEN @ + 1 ELSE @,
                            !.exc = {}, !.conn = "none"],
                  "raise", <<>>, CHOOSE r \in s.exc : TRUE)
  ELSE ReaderReturns([s EXCEPT !.scratch = FALSE, !.conn = "none"])

InitDetect ==
  /\ detect \in {NewDetect(platform) : platform \in Platforms}
  /\ rollup = <<>>
  /\ probe = <<>>
  /\ classified = <<>>
  /\ store = <<>>
  /\ RiskIdle
  /\ ParseIdle
  /\ AppIdle

\* method() is called: _read_firefox or _read_chromium up to the point where
\* a cookie database has been found, lines 687-710 and 731-746
CallReader ==
  /\ detect.pc = "next"
  /\ \/ \* no profile directory, no key, no database: None
        detect' = ReaderDone(detect, "none", <<>>, "")
     \/ \* os.listdir raises in _read_firefox
        /\ ~IsChromium(detect)
        /\ detect' = ReaderDone(detect, "raise", <<>>, "listdir")
     \/ \* a database to read
        detect' = IF IsChromium(detect)
                  THEN [detect EXCEPT !.pc = "profile", !.p = 1]
                  ELSE [detect EXCEPT !.pc = "copy", !.p = 1]
  /\ UNCHANGED <<riskVars, parseVars, appVars, rollup, probe, classified, store>>

\* the loop over the profiles in _read_chromium, lines 746-753
NextProfile ==
  /\ detect.pc = "profile"
  /\ IF detect.p > Len(ChromiumProfiles)
     THEN detect' = ReaderDone(detect, "none", <<>>, "")
     ELSE \/ detect' = [detect EXCEPT !.p = @ + 1]
          \/ detect' = [detect EXCEPT !.pc = "copy"]
  /\ UNCHANGED <<riskVars, parseVars, appVars, rollup, probe, classified, store>>

\* tempfile.mktemp and shutil.copy2, lines 774-775 and 845-846, outside the
\* try: the copy may fail before the scratch file exists or with it written
CopyDatabase ==
  /\ detect.pc = "copy"
  /\ \/ detect' = [detect EXCEPT !.pc = "connect", !.scratch = TRUE, !.copies = @ + 1]
     \/ detect' = ReaderDone(detect, "raise", <<>>, "copy")
     \/ detect' = ReaderDone([detect EXCEPT !.left = @ + 1, !.copies = @ + 1],
                             "raise", <<>>, "copy")
  /\ UNCHANGED <<riskVars, parseVars, appVars, rollup, probe, classified, store>>

\* sqlite3.connect and conn.cursor, lines 777-779 and 848-850
Connect ==
  /\ detect.pc = "connect"
  /\ \/ detect' = [detect EXCEPT !.pc = "query", !.conn = "open", !.d = 1, !.cookies = <<>>]
     \/ detect' = [detect EXCEPT !.pc = "finally", !.exc = {"connect"}]
  /\ UNCHANGED <<riskVars, parseVars, appVars, rollup, probe, classified, store>>

\* one turn of the loop over FCLM_DOMAINS: the query and its rows
QueryDomain ==
  /\ detect.pc = "query"
  /\ \/ detect' = [detect EXCEPT !.pc = "finally", !.exc = {"query"}]
     \/ \E rows \in SeqsUpTo(RowKinds, MaxCookieRows) :
          /\ RowsRaise(rows) => IsChromium(detect)
          /\ detect' =
               IF RowsRaise(rows)
               THEN [detect EXCEPT !.pc = "finally", !.exc = {"decrypt"}]
               ELSE [detect EXCEPT !.cookies = @ \o RowCookies(detect, rows),
                                   !.d = @ + 1,
                                   !.pc = IF detect.d = Len(FCLM_DOMAINS)
                                          THEN "close" ELSE "query"]
  /\ UNCHANGED <<riskVars, parseVars, appVars, rollup, probe, classified, store>>

\* conn.close() and the return statement, lines 790-791 and 860-861
CloseConnection ==
  /\ detect.pc = "close"
  /\ detect' = [detect EXCEPT !.pc = "finally", !.conn = "closed"]
  /\ UNCHANGED <<riskVars, parseVars, appVars, rollup, probe, classified, store>>

Unlink ==
  /\ detect.pc = "finally"
  /\ detect' = AfterUnlink(detect)
  /\ UNCHANGED <<riskVars, parseVars, appVars, rollup, probe, classified, store>>

NextDetect ==
  \/ CallReader
  \/ NextProfile
  \/ CopyDatabase
  \/ Connect
  \/ QueryDomain
  \/ CloseConnection
  \/ Unlink

SpecDetect == InitDetect /\ [][NextDetect]_vars

(***************************************************************************)
(* Properties of the application                                           *)
(***************************************************************************)
\* the unit has been answered by a login page and auto_detect gave a cookie
Refreshed(u) == u.acquires = 1 /\ u.acquired # NONE

\* the unit has been answered by a login page and auto_detect gave nothing
NotRefreshed(u) == u.acquires = 1 /\ u.acquired = NONE

C3_Units ==
  \A i \in DOMAIN units :
    LET u == units[i]
    IN  /\ u.acquires <= 1
        /\ u.gets <= 2
        /\ u.pc = "done" => u.gets >= 1
        /\ u.acquires = 1 => /\ u.html1 # {}
                             /\ \A h \in u.html1 : is_login_page(h)
        /\ u.gets = 2 => Refreshed(u)
        /\ Refreshed(u) =>
             /\ u.sets = 1
             /\ u.set_to = {SelectSeq(u.acquired, IsAscii)}
             /\ u.cb_calls = IF clients[u.client].hasCallback
                             THEN <<SelectSeq(u.acquired, IsAscii)>> ELSE <<>>
             /\ IF u.pc = "done"
                THEN /\ u.gets = 2
                     /\ u.raised \/ (u.resp2 # {} /\ u.ret = u.resp2)
                ELSE u.pc = "get2" /\ u.gets = 1
        /\ ~Refreshed(u) => u.sets = 0 /\ u.cb_calls = <<>>

\* the step in which auto_detect gives a cookie leaves it, sanitized, in the
\* client of the unit and, where the client has a callback, in the configuration
C3_Step ==
  \A i \in DOMAIN units :
    (units[i].pc = "refresh" /\ units'[i].pc = "get2") =>
      /\ clients'[units[i].client].cookie = SelectSeq(units'[i].acquired, IsAscii)
      /\ clients[units[i].client].hasCallback =>
           config_cookie' = clients'[units[i].client].cookie

\* C3: within one request auto_detect is called at most once and only after a
\* first response that is a login page; when it gives a cookie the client's
\* cookie is replaced, a registered callback is called once with the client's
\* new cookie, and exactly one more GET is issued, whose response (or failure)
\* ends the request whatever it is: no second auto_detect, no third GET.
C3_SingleRefreshSingleRetry == []C3_Units /\ [][C3_Step]_vars

\* a request was refreshed and its retry was answered by a login page again,
\* which it returned
C3_Witness ==
  \E i \in DOMAIN units :
    /\ units[i].pc = "done"
    /\ Refreshed(units[i])
    /\ units[i].gets = 2
    /\ units[i].cb_calls # <<>>
    /\ \E h \in units[i].ret : is_login_page(h)

C4_Units ==
  \A i \in DOMAIN units :
    NotRefreshed(units[i]) =>
      /\ units[i].pc = "done"
      /\ ~units[i].raised
      /\ units[i].ret = units[i].html1
      /\ \A h \in units[i].ret : is_login_page(h)
      /\ units[i].gets = 1
      /\ units[i].resp2 = {}
      /\ units[i].sets = 0
      /\ units[i].cb_calls = <<>>

\* the step in which auto_detect gives nothing changes no client and saves
\* nothing
C4_Step ==
  \A i \in DOMAIN units :
    (units[i].pc = "refresh" /\ units'[i].pc = "done") =>
      /\ clients' = clients
      /\ config_cookie' = config_cookie
      /\ writes' = writes

\* C4: when the first response is a login page and auto_detect gives no cookie,
\* the request returns that login page unchanged, the client's cookie stays as
\* it was, the callback is not called and no second GET is issued.
C4_NoCookieReturnsLoginPage == []C4_Units /\ [][C4_Step]_vars

\* a request of a client with a registered callback ended that way
C4_Witness ==
  \E i \in DOMAIN units :
    /\ NotRefreshed(units[i])
    /\ units[i].pc = "done"
    /\ units[i].ret = {LoginPage}
    /\ clients[units[i].client].hasCallback

\* the lookup of the unit ended on a login page for want of a fresh cookie
AuthFailed(u) ==
  /\ u.kind = "lookup"
  /\ u.pc = "done"
  /\ ~u.raised
  /\ NotRefreshed(u)
  /\ \A h \in u.ret : is_login_page(h)

\* C5: a lookup that met a login page and found no fresh cookie is never
\* delivered, nor displayed, as the result of a report without activity: what
\* it hands to the event loop differs from the parse of an empty report, and
\* the status line it leaves is not "No FCLM sessions found".
C5_AuthFailureDistinct ==
  /\ \A k \in DOMAIN after_queue :
       (after_queue[k].unit # 0 /\ AuthFailed(units[after_queue[k].unit])) =>
         /\ after_queue[k].fn # "_display_fclm_employee"
            \/ after_queue[k].data # {parse_time_details(EmptyReport, after_queue[k].badge)}
  /\ (shown # 0 /\ AuthFailed(units[shown])) =>
       view.status.kind # "No FCLM sessions found"

\* C6: the configuration's cookie, the cached employee data and the status
\* and table contents are written on the foreground only, never from the
\* thread of a lookup.
C6_ForegroundOnlyWrites == \A w \in writes : w.by = "fg"

\* C10: the cookie of every client is ASCII-only, after construction from any
\* text and after every silent refresh, and is_connected is false exactly
\* when the cookie is empty or holds nothing but whitespace.
C10_AsciiCredential ==
  \A c \in DOMAIN clients :
    /\ \A k \in DOMAIN clients[c].cookie : clients[c].cookie[k] \notin NonAsciiChars
    /\ ~is_connected(clients[c])
         <=> \A k \in DOMAIN clients[c].cookie : IsWhitespace(clients[c].cookie[k])

\* one client was built from a text with an ellipsis, one from whitespace, and
\* a silent refresh has replaced a cookie by one read with an ellipsis in it
C10_Witness ==
  /\ \E i \in DOMAIN units :
       /\ units[i].sets = 1
       /\ \E k \in DOMAIN units[i].acquired : units[i].acquired[k] = ELLIPSIS
       /\ clients[units[i].client].cookie = <<"b">>
  /\ \E c \in DOMAIN clients : ~is_connected(clients[c])

(***************************************************************************)
(* Properties of auto_detect and the readers                               *)
(***************************************************************************)
RaisedCalls(calls) == SelectSeq(calls, LAMBDA c : c.kind = "raise")

\* C11: the readers are called in the platform's fixed order (Edge, Chrome,
\* Firefox on Windows, Firefox alone elsewhere); the first that gives a cookie
\* ends the search and its cookie and name are returned; one that raises or
\* gives nothing is followed by the next; failure is returned only after
\* every reader was called and none gave a cookie, with one error entry for
\* each reader that raised.
C11_FirstCookieWins ==
  /\ Len(detect.calls) <= Len(Browsers(detect.platform))
  /\ \A k \in DOMAIN detect.calls : detect.calls[k].name = Browsers(detect.platform)[k]
  /\ \A k \in 1..(Len(detect.calls) - 1) : detect.calls[k].kind # "cookie"
  /\ Len(detect.errors) = Len(RaisedCalls(detect.calls))
  /\ \A k \in DOMAIN detect.errors :
       detect.errors[k].name = RaisedCalls(detect.calls)[k].name
  /\ IF detect.pc = "done"
     THEN /\ Cardinality(detect.result) = 1
          /\ detect.calls # <<>>
          /\ \A r \in detect.result :
               IF detect.calls[Len(detect.calls)].kind = "cookie"
               THEN /\ r.cookie # <<>>
                    /\ r.browser = detect.calls[Len(detect.calls)].name
                    /\ \A k \in DOMAIN r.cookie : r.cookie[k][1] = r.browser
               ELSE /\ Len(detect.calls) = Len(Browsers(detect.platform))
                    /\ r.cookie = <<>>
                    /\ r.errors = detect.errors
     ELSE /\ detect.result = {}
          /\ \A k \in DOMAIN detect.calls : detect.calls[k].kind # "cookie"

\* on Windows the Edge reader raised, Chrome gave nothing, Firefox gave the cookie
C11_Witness ==
  /\ detect.pc = "done"
  /\ [k \in DOMAIN detect.calls |-> detect.calls[k].kind] = <<"raise", "none", "cookie">>
  /\ \E r \in detect.result : r.browser = "Firefox" /\ r.cookie # <<>>

\* the scratch copies in existence: the one of the read in progress and
\* those left by the reads that have returned or raised
ScratchCopies == detect.left + (IF detect.scratch THEN 1 ELSE 0)

\* C12: whenever no read of a cookie database is in progress, no scratch copy
\* exists: each one made is gone when its read returns or raises.
C12_ScratchRemoved ==
  detect.pc \in {"next", "profile", "done"} => ScratchCopies = 0

(***************************************************************************)
(* Properties of the path summary                                          *)
(***************************************************************************)
IsPrefix(a, b) == Len(a) <= Len(b) /\ SubSeq(b, 1, Len(a)) = a

SameEntries(a, b) ==
  /\ Len(a) = Len(b)
  /\ \A x \in {a[k] : k \in DOMAIN a} \cup {b[k] : k \in DOMAIN b} :
       Cardinality({k \in DOMAIN a : a[k] = x}) = Cardinality({k \in DOMAIN b : b[k] = x})

\* no entry stands before one with more hours
SortedDescending(list) ==
  \A i \in DOMAIN list : \A j \in DOMAIN list :
    i < j => ~FloatLess(list[i].hours, list[j].hours)

\* every process so far was asked in the configured order, each failure left
\* one error naming its process, and once the fetch is done all were asked
\* and every list is in descending order of hours
C13_State ==
  /\ rollup.requested = SubSeq(FCLM_PROCESS_IDS, 1, Len(rollup.requested))
  /\ Len(rollup.outcomes) = Len(rollup.requested)
  /\ Len(rollup.errors) = Len(SelectSeq(rollup.outcomes, LAMBDA o : o # "page"))
  /\ \A k \in DOMAIN rollup.errors :
       \E n \in DOMAIN rollup.outcomes :
         /\ rollup.outcomes[n] # "page"
         /\ rollup.errors[k].process = FCLM_PROCESS_IDS[n]
         /\ Len(SelectSeq(SubSeq(rollup.outcomes, 1, n), LAMBDA o : o # "page")) = k
  /\ rollup.pc \in {"sort", "done"} => Len(rollup.requested) = Len(FCLM_PROCESS_IDS)

C13_Sorted ==
  rollup.pc = "done" =>
    \A p \in DOMAIN rollup.all_aas : SortedDescending(rollup.all_aas[p])

\* no step takes an entry away: a request adds to the lists or leaves them,
\* the sort reorders them
C13_Step ==
  \A p \in DOMAIN rollup.all_aas :
    IF rollup.pc = "fetch"
    THEN IsPrefix(rollup.all_aas[p], rollup'.all_aas[p])
    ELSE SameEntries(rollup.all_aas[p], rollup'.all_aas[p])

\* the parts of C13 that do not speak of the order of the lists
C13_ContinuesPastFailures == []C13_State /\ [][C13_Step]_vars

\* C13: every configured process is requested whatever the earlier ones gave;
\* a failed or expired one adds one error for that process and takes nothing
\* away from what the others gave; on return every list is in descending
\* order of hours.
C13_AllProcessesSorted == []C13_State /\ []C13_Sorted /\ [][C13_Step]_vars

\* the first row, in the order the rows were read, for a badge on a path
FirstSeen(p, badge_id) ==
  rollup.seen[CHOOSE k \in DOMAIN rollup.seen :
                /\ rollup.seen[k].path = p
                /\ rollup.seen[k].entry.badge_id = badge_id
                /\ \A j \in 1..(k - 1) :
                     ~(rollup.seen[j].path = p /\ rollup.seen[j].entry.badge_id = badge_id)].entry

\* C14: within one fetch no list holds two entries with one badge id, the
\* rows sent from Water Spider to WHD Waterspider included, and the entry of a
\* badge on a path is the first row read for it there.
C14_OneEntryPerBadge ==
  \A p \in DOMAIN rollup.all_aas :
    /\ \A i \in DOMAIN rollup.all_aas[p] : \A j \in DOMAIN rollup.all_aas[p] :
         rollup.all_aas[p][i].badge_id = rollup.all_aas[p][j].badge_id => i = j
    /\ {rollup.all_aas[p][k] : k \in DOMAIN rollup.all_aas[p]}
         = {FirstSeen(p, rollup.seen[k].entry.badge_id) :
              k \in {n \in DOMAIN rollup.seen : rollup.seen[n].path = p}}

\* badge 101 was read on C-Returns_EndofLine twice in one page and on WHD
\* Waterspider both from a Water Spider fragment of a WHD process and from a
\* WHD Waterspider fragment
C14_Witness ==
  /\ rollup.pc = "done"
  /\ Cardinality({k \in DOMAIN rollup.seen :
                    /\ rollup.seen[k].path = PathIndex(CretEOL)
                    /\ rollup.seen[k].entry.badge_id = Badge101}) >= 2
  /\ Cardinality({k \in DOMAIN rollup.seen :
                    /\ rollup.seen[k].path = PathIndex(WhdWaterspider)
                    /\ rollup.seen[k].entry.badge_id = Badge101}) >= 2
  /\ Len(rollup.all_aas[PathIndex(CretEOL)]) = 2

(***************************************************************************)
(* Properties of test_connection and of the refresh callback               *)
(***************************************************************************)
\* the body test_connection looked at holds a report token
BodyHasMarker == \E h \in probe.u.ret : h.ganttChartToken \/ h.timeDetailsToken

BodyIsLogin == \E h \in probe.u.ret : is_login_page(h)

\* C15 as stated: test_connection returns ok = true exactly when the body it
\* fetched holds the report marker, and a request that raised gives
\* (false, message).
C15_OkIffMarker ==
  \A r \in probe.result :
    /\ r.ok <=> (~probe.u.raised /\ BodyHasMarker)
    /\ probe.u.raised => r.message = "Connection failed"

\* C15 amended: test_connection returns ok = true exactly when the body it
\* fetched is not a login page and holds 'ganttChart' or 'Time Details'; a
\* login page gives (false, cookie expired) whatever else it holds, and a
\* request that raised gives (false, connection failed).
C15_OkIffReportAndNotLogin ==
  \A r \in probe.result :
    /\ r.ok <=> (~probe.u.raised /\ ~BodyIsLogin /\ BodyHasMarker)
    /\ (~probe.u.raised /\ BodyIsLogin) => r.message = "Cookie expired or invalid"
    /\ probe.u.raised => r.message = "Connection failed"

\* a login page that also holds a report token was answered with a failure
C15_Witness ==
  /\ probe.result # {}
  /\ ~probe.u.raised
  /\ BodyIsLogin
  /\ BodyHasMarker
  /\ \A r \in probe.result : ~r.ok

\* C20: when the refresh callback raises, the client's cookie is the new one,
\* the retry GET is issued, and _request ends as the retry does: with the
\* retry's response, or with what the retry itself raised.
C20_CallbackFailureSwallowed ==
  probe.cb_raised =>
    /\ probe.cookie = sanitize_cookie(probe.u.acquired)
    /\ probe.u.cb_calls = <<probe.cookie>>
    /\ probe.u.pc \in {"get2", "done"}
    /\ probe.u.pc = "done" =>
         /\ probe.u.gets = 2
         /\ IF probe.u.raised THEN probe.u.resp2 = {}
            ELSE probe.u.resp2 # {} /\ probe.u.ret = probe.u.resp2

\* the callback raised and the request returned the page of the retry, which
\* is not the page of the first GET
C20_Witness ==
  /\ probe.cb_raised
  /\ probe.u.pc = "done"
  /\ ~probe.u.raised
  /\ probe.u.ret = probe.u.resp2
  /\ probe.u.resp2 # probe.u.html1
  /\ probe.result # {}

(***************************************************************************)
(* Properties of the classifier                                            *)
(***************************************************************************)
\* the configured paths whose normalized name holds the normalized title or
\* is held by it
EitherWay(title) ==
  {i \in DOMAIN FCLM_RESTRICTED_PATHS :
     \/ Contains(DropSeparators(Lower(title)), DropSeparators(Lower(FCLM_RESTRICTED_PATHS[i])))
     \/ Contains(DropSeparators(Lower(FCLM_RESTRICTED_PATHS[i])), DropSeparators(Lower(title)))}

FirstOf(S) == CHOOSE i \in S : \A j \in S : i <= j

\* C16: classify_fclm_session returns a configured path or none for every
\* title; the empty title gives none, and for any other title for which some
\* configured name, normalized, holds the normalized title or is held by it,
\* the result is the first such name in the order of FCLM_RESTRICTED_PATHS.
C16_TotalBothDirections ==
  classified # <<>> => \A r \in classified.result :
    /\ r = NONE \/ \E i \in DOMAIN FCLM_RESTRICTED_PATHS : r = FCLM_RESTRICTED_PATHS[i]
    /\ classified.title = <<>> => r = NONE
    /\ (classified.title # <<>> /\ EitherWay(classified.title) # {})
         => r = FCLM_RESTRICTED_PATHS[FirstOf(EitherWay(classified.title))]

\* a title that holds no configured name and is held by several was given
\* the first of them
C16_Witness ==
  /\ classified # <<>>
  /\ DropSeparators(Lower(classified.title)) # <<>>
  /\ Cardinality(EitherWay(classified.title)) >= 2
  /\ classified.result = {FCLM_RESTRICTED_PATHS[FirstOf(EitherWay(classified.title))]}
  /\ \A i \in EitherWay(classified.title) :
       ~Contains(DropSeparators(Lower(classified.title)),
                 DropSeparators(Lower(FCLM_RESTRICTED_PATHS[i])))

(***************************************************************************)
(* Properties of check_mpv_risk without a target                           *)
(***************************************************************************)
\* the work code is absent, or no code of the table equals it, starts it or
\* is started by it once it is upper-cased and rid of spaces and underscores
NoTarget(code) ==
  \/ code = NONE
  \/ \A i \in DOMAIN WORK_CODE_TO_PATH :
       /\ DropSeparators(Upper(code)) # WORK_CODE_TO_PATH[i].code
       /\ ~StartsWith(DropSeparators(Upper(code)), WORK_CODE_TO_PATH[i].code)
       /\ ~StartsWith(WORK_CODE_TO_PATH[i].code, DropSeparators(Upper(code)))

\* the paths the sessions are classified to
WorkedPaths(sessions) ==
  {classify_fclm_session(sessions[i].title) : i \in DOMAIN sessions} \ {NONE}

\* C17: without a resolvable target the result has has_risk false, no reason,
\* no target path and no remaining minutes, and its path_times and
\* worked_paths hold every worked path once with the minutes summed on it.
C17_NoTargetCarriesTimes ==
  \A r \in risk_out :
    NoTarget(risk_in.code) =>
      /\ r.has_risk = FALSE
      /\ r.reason = "None"
      /\ r.target_path = NONE
      /\ r.remaining_minutes = {}
      /\ r.current_minutes = {}
      /\ {r.path_times[i].path : i \in DOMAIN r.path_times} = WorkedPaths(risk_in.sessions)
      /\ \A i \in DOMAIN r.path_times :
           /\ r.path_times[i].mins = ClassifiedMinutes(risk_in.sessions, r.path_times[i].path)
           /\ \A j \in DOMAIN r.path_times : r.path_times[j].path = r.path_times[i].path => i = j
      /\ r.worked_paths = [i \in DOMAIN r.path_times |-> r.path_times[i].path]

\* a work code that resolves to nothing was checked against sessions on two
\* paths, one of them past the limit
C17_Witness ==
  /\ risk_out # {}
  /\ risk_in.code # NONE
  /\ NoTarget(risk_in.code)
  /\ Cardinality(WorkedPaths(risk_in.sessions)) = 2
  /\ \E i \in DOMAIN risk_in.sessions :
       risk_in.sessions[i].duration_minutes >= MPV_MAX_TIME_MINUTES * Scale

(***************************************************************************)
(* Properties of the consolidated entries and of the path times            *)
(***************************************************************************)
\* the grouping key _display_fclm_employee gives a title
GroupKey(title) == GroupOfPath(title, classify_fclm_session(title)).key

MembersOf(sessions, key) == {i \in DOMAIN sessions : GroupKey(sessions[i].title) = key}

MinutesAt(sessions) == [i \in DOMAIN sessions |-> sessions[i].duration_minutes]

\* the function-seg rows of the page whose title falls under one key
FunctionRowsOfKey(key) == {i \in FunctionRowsAt : GroupKey(RowFields(InRows[i]).title) = key}

FunctionTotalOfKey(key) ==
  SumOver([i \in DOMAIN InRows |-> parse_fclm_duration(RowFields(InRows[i]).duration)],
          FunctionRowsOfKey(key))

Larger(a, b) == IF a > b THEN a ELSE b

BetweenJobAndFunction(sessions, entry) ==
  /\ \A i \in MembersOf(sessions, entry.key) :
       sessions[i].row_type = "job" => entry.mins >= sessions[i].duration_minutes
  /\ entry.mins <= FunctionTotalOfKey(entry.key)
  /\ (\E i \in MembersOf(sessions, entry.key) : sessions[i].row_type = "correction")
       => entry.mins = FunctionTotalOfKey(entry.key)

\* C18 as stated, for the paths the page has function-seg rows for: the
\* consolidated minutes of a path are at least the minutes of each of its job
\* sessions and at most the function-seg total of the path, and equal to it
\* where a correction was added.
C18_ConsolidatedBetween ==
  \A r \in parse_out : \A entries \in consolidated : \A n \in DOMAIN entries :
    FunctionRowsOfKey(entries[n].key) # {} => BetweenJobAndFunction(r.sessions, entries[n])

AllKinds == {"job", "other", "correction"}

\* C18 amended: every session falls under exactly one consolidated entry, the
\* minutes of an entry are the sum of the minutes of its sessions, corrections
\* included, and for every title with function-seg rows the sessions of the
\* title sum to the larger of the function-seg total and the minutes of the
\* title's own rows.
C18_ConsolidatedIsSessionSum ==
  \A r \in parse_out : \A entries \in consolidated :
    /\ \A n \in DOMAIN entries :
         /\ entries[n].mins = SumOver(MinutesAt(r.sessions),
                                 MembersOf(r.sessions, entries[n].key))
         /\ \A m \in DOMAIN entries : entries[m].key = entries[n].key => m = n
    /\ \A i \in DOMAIN r.sessions :
         \E n \in DOMAIN entries : entries[n].key = GroupKey(r.sessions[i].title)
    /\ \A k \in FunctionRowsAt :
         KindMinutes(r.sessions, RowFields(InRows[k]).title, AllKinds)
           = Larger(FunctionTotal(RowFields(InRows[k]).title),
                    KindMinutes(r.sessions, RowFields(InRows[k]).title, {"job", "other"}))

\* an entry was made of two row sessions and a correction
C18_Witness ==
  \E r \in parse_out : \E entries \in consolidated : \E n \in DOMAIN entries :
    /\ Cardinality(MembersOf(r.sessions, entries[n].key)) = 3
    /\ \E i \in MembersOf(r.sessions, entries[n].key) : r.sessions[i].row_type = "correction"
    /\ entries[n].mins = FunctionTotalOfKey(entries[n].key)

\* C19: every value of the path times computed from the parsed sessions is
\* non-negative, and a path is a key only if some session is classified to it.
C19_PathTimesNonNegative ==
  \A r \in parse_out : \A times \in session_times : \A i \in DOMAIN times :
    /\ times[i].mins >= 0
    /\ \E j \in DOMAIN r.sessions : classify_fclm_session(r.sessions[j].title) = times[i].path

(***************************************************************************)
(* Properties of the consolidation pass                                    *)
(***************************************************************************)
\* the grouping key as the contract words it: the restricted path a title is
\* classified to, else the title itself
KeyOf(title) ==
  IF classify_fclm_session(title) # NONE THEN classify_fclm_session(title) ELSE title

SessionsOfKey(sessions, key) == {i \in DOMAIN sessions : KeyOf(sessions[i].title) = key}

Least(S) == CHOOSE i \in S : \A j \in S : i <= j

Greatest(S) == CHOOSE i \in S : \A j \in S : j <= i

\* one entry per key, in the order the keys are first seen, with the summed
\* minutes and the last end as the merging rule gives it
EntriesAsMerged(sessions, entries) ==
  /\ Len(entries) = Cardinality({KeyOf(sessions[i].title) : i \in DOMAIN sessions})
  /\ \A n \in DOMAIN entries :
       /\ SessionsOfKey(sessions, entries[n].key) # {}
       /\ \A m \in DOMAIN entries :
            n < m => Least(SessionsOfKey(sessions, entries[n].key))
                       < Least(SessionsOfKey(sessions, entries[m].key))
       /\ entries[n].mins = SumOver([i \in DOMAIN sessions |-> sessions[i].duration_minutes],
                                    SessionsOfKey(sessions, entries[n].key))
       /\ entries[n].last_end = <<>>
            <=> \E i \in SessionsOfKey(sessions, entries[n].key) : sessions[i].end = <<>>
       /\ entries[n].last_end # <<>>
            => entries[n].last_end
                 = sessions[Greatest(SessionsOfKey(sessions, entries[n].key))].end

\* an entry open after n sessions is open after n + 1
StaysOpen(before, after) ==
  \A n \in DOMAIN before :
    before[n].last_end = <<>> =>
      /\ n \in DOMAIN after
      /\ after[n].key = before[n].key
      /\ after[n].last_end = <<>>

\* C21: the consolidated entries are one per grouping key in first-seen
\* order, with the minutes of the merged sessions summed; an entry's last end
\* is empty exactly when a merged session has an empty end and is otherwise the
\* end of the last merged session; and through the pass an entry that has
\* become open stays open.
C21_FirstSeenOrderOpenSticks ==
  \A r \in parse_out : \A entries \in consolidated :
    /\ EntriesAsMerged(r.sessions, entries)
    /\ \A n \in 1..Len(r.sessions) :
         StaysOpen(Consolidate(r.sessions, n - 1), Consolidate(r.sessions, n))

\* an entry of an open session and a later closed one is open, and stands
\* after the entry of another key seen first
C21_Witness ==
  \E r \in parse_out : \E entries \in consolidated :
    /\ Len(entries) = 2
    /\ Cardinality(SessionsOfKey(r.sessions, entries[2].key)) = 2
    /\ r.sessions[Least(SessionsOfKey(r.sessions, entries[2].key))].end = <<>>
    /\ r.sessions[Greatest(SessionsOfKey(r.sessions, entries[2].key))].end # <<>>
    /\ entries[2].last_end = <<>>

(***************************************************************************)
(* Properties of the hours of a path summary row                           *)
(***************************************************************************)
\* the cells, from the fourth on, that float reads
NumericAt(cells) == {i \in 4..Len(cells) : float_parse(strip_html(cells[i])) # {}}

ValueAt(cells, i) == CHOOSE h \in float_parse(strip_html(cells[i])) : TRUE

\* the row an entry of a list was made of
RowOfEntry(p, badge_id) ==
  rollup.seen[CHOOSE k \in DOMAIN rollup.seen :
                /\ rollup.seen[k].path = p
                /\ rollup.seen[k].entry.badge_id = badge_id
                /\ \A j \in 1..(k - 1) :
                     ~(rollup.seen[j].path = p /\ rollup.seen[j].entry.badge_id = badge_id)].cells

\* the last numeric cell, and the interior sum only when no cell is numeric
HoursAsClaimed(cells) ==
  IF NumericAt(cells) # {} THEN ValueAt(cells, Greatest(NumericAt(cells)))
  ELSE MiddleSum(cells, Len(cells) - 1)

\* the last numeric cell unless it is 0 or there is none, the interior sum then
HoursAsRead(cells) ==
  IF NumericAt(cells) # {} /\ ~IsZero(ValueAt(cells, Greatest(NumericAt(cells))))
  THEN ValueAt(cells, Greatest(NumericAt(cells)))
  ELSE MiddleSum(cells, Len(cells) - 1)

\* C22 as stated: the hours of an entry are the last cell of its row that
\* reads as a number, and the sum of the interior cells only when no cell does.
C22_LastNumericCell ==
  \A p \in DOMAIN rollup.all_aas : \A n \in DOMAIN rollup.all_aas[p] :
    rollup.all_aas[p][n].hours
      = HoursAsClaimed(RowOfEntry(p, rollup.all_aas[p][n].badge_id))

\* C22 amended: the hours of an entry are the last cell of its row, from the
\* end down to the fourth, that reads as a number, unless that value is 0 or
\* no cell reads: then they are the sum of the numeric cells from the fifth to
\* the last but one, 0 when there is none; minutes are sixty times the hours.
C22_LastNumericUnlessZero ==
  \A p \in DOMAIN rollup.all_aas : \A n \in DOMAIN rollup.all_aas[p] :
    /\ rollup.all_aas[p][n].hours
         = HoursAsRead(RowOfEntry(p, rollup.all_aas[p][n].badge_id))
    /\ rollup.all_aas[p][n].minutes = Times60(rollup.all_aas[p][n].hours)

\* a list holds an entry of a row whose last cell reads 0 over interior cells
\* that do not sum to 0, and an entry of a row no cell of which reads
C22_Witness ==
  /\ \E p \in DOMAIN rollup.all_aas : \E n \in DOMAIN rollup.all_aas[p] :
       /\ NumericAt(RowOfEntry(p, rollup.all_aas[p][n].badge_id)) # {}
       /\ IsZero(HoursAsClaimed(RowOfEntry(p, rollup.all_aas[p][n].badge_id)))
       /\ ~IsZero(rollup.all_aas[p][n].hours)
  /\ \E p \in DOMAIN rollup.all_aas : \E n \in DOMAIN rollup.all_aas[p] :
       /\ NumericAt(RowOfEntry(p, rollup.all_aas[p][n].badge_id)) = {}
       /\ rollup.all_aas[p][n].hours = Num(0)

(***************************************************************************)
(* Properties of the configured names under the classifier                 *)
(***************************************************************************)
\* every session classified to a restricted path is titled with this path
OnlyTitled(sessions, path) ==
  \A j \in DOMAIN sessions :
    classify_fclm_session(sessions[j].title) # NONE => sessions[j].title = path

\* C23: for a work code of the table, when the only restricted-path sessions
\* are titled exactly with the path the code maps to, the answer of
\* check_mpv_risk is not PATH_SWITCH.
C23_OwnPathNeverSwitch ==
  \A r \in risk_out : \A i \in DOMAIN WORK_CODE_TO_PATH :
    ( /\ DropSeparators(Upper(risk_in.code)) = WORK_CODE_TO_PATH[i].code
      /\ OnlyTitled(risk_in.sessions, WORK_CODE_TO_PATH[i].path) )
      => r.reason # "PATH_SWITCH"

\* C24: classify_fclm_session returns every configured restricted-path name
\* for itself.
C24_PathsAreFixedPoints ==
  classified # <<>> =>
    \A r \in classified.result :
      (\E i \in DOMAIN FCLM_RESTRICTED_PATHS : classified.title = FCLM_RESTRICTED_PATHS[i])
        => r = classified.title

(***************************************************************************)
(* Properties of the result of check_mpv_risk                              *)
(***************************************************************************)
\* C29: in every result has_risk is true exactly when the reason is
\* PATH_SWITCH or TIME_EXCEEDED; remaining_minutes and current_minutes are set
\* together, only without risk and with a target, and then the remaining time
\* is above 0 and below the ceiling and the two add up to the ceiling;
\* worked_paths lists the keys of path_times.
C29_ResultConsistent ==
  \A r \in risk_out :
    /\ r.reason \in {"None", "PATH_SWITCH", "TIME_EXCEEDED"}
    /\ r.has_risk <=> r.reason \in {"PATH_SWITCH", "TIME_EXCEEDED"}
    /\ (r.remaining_minutes # {} \/ r.current_minutes # {}) =>
         /\ ~r.has_risk
         /\ r.target_path # NONE
         /\ \E rem \in r.remaining_minutes : \E cur \in r.current_minutes :
              /\ 0 < rem
              /\ rem < MPV_MAX_TIME_MINUTES * Scale
              /\ rem + cur = MPV_MAX_TIME_MINUTES * Scale
    /\ Len(r.worked_paths) = Len(r.path_times)
    /\ \A i \in DOMAIN r.path_times : r.worked_paths[i] = r.path_times[i].path

\* a result with one minute remaining of the ceiling
C29_Witness ==
  \E r \in risk_out :
    /\ r.remaining_minutes = {Scale}
    /\ r.current_minutes = {(MPV_MAX_TIME_MINUTES - 1) * Scale}
    /\ r.worked_paths = <<r.target_path>>

\* C30: a work code that is not absent and is empty once its spaces and
\* underscores are removed gives has_risk false and no target path.
C30_BlankCodeNoTarget ==
  \A r \in risk_out :
    (risk_in.code # NONE /\ DropSeparators(Upper(risk_in.code)) = <<>>)
      => (~r.has_risk /\ r.target_path = NONE)

(***************************************************************************)
(* Properties of correction sessions in the consolidated entries           *)
(***************************************************************************)
\* C25: a consolidated entry has an empty last end, and is shown as ACTIVE,
\* only if a job or other session merged into it has an empty end; a
\* correction session alone does not open an entry.
C25_CorrectionNeverOpens ==
  \A r \in parse_out : \A entries \in consolidated : \A n \in DOMAIN entries :
    (entries[n].last_end = <<>> \/ RowsOf(entries)[n].last_end = ACTIVE)
      => \E i \in SessionsOfKey(r.sessions, entries[n].key) :
           /\ r.sessions[i].row_type \in {"job", "other"}
           /\ r.sessions[i].end = <<>>

(***************************************************************************)
(* Properties of overlapping lookups and of a cleared cookie               *)
(***************************************************************************)
\* two lookups for different badges have both returned a report and both
\* reports have been displayed; the second is the one requested last
BothDelivered ==
  /\ Len(units) = 2
  /\ \A i \in {1, 2} :
       units[i].kind = "lookup" /\ units[i].pc = "done" /\ ~units[i].raised
  /\ units[1].badge # units[2].badge
  /\ \A k \in DOMAIN after_queue : after_queue[k].fn # "_display_fclm_employee"
  /\ current_associate_id = units[2].assoc_id
  /\ view.source = "fclm"

\* C26: when the reports of two lookups for different badges have both been
\* displayed, the session table and the cached employee data are those of the
\* badge requested last, the one current_associate_id refers to.
C26_LatestBadgeShown ==
  BothDelivered =>
    /\ view.assoc = current_associate_id
    /\ shown = 2
    /\ \A d \in employee_data : d.employee_id = units[2].badge

\* a step that installs no client leaves a cleared credential cleared
C27_Step ==
  (fclm # 0 /\ fclm' = fclm /\ config_cookie = <<>> /\ clients[fclm].cookie = <<>>)
    => (config_cookie' = <<>> /\ clients'[fclm].cookie = <<>>)

\* C27: once the cookie is cleared, the saved cookie stays empty and equal to
\* the cookie of the application's client until a save or a grab installs a
\* new client, whatever requests are still in flight.
C27_ClearedStaysCleared == [][C27_Step]_vars

(***************************************************************************)
(* Properties of the local session store                                   *)
(***************************************************************************)
\* every associate has at most one session without end time
C28_OneOpen ==
  \A a \in StoreAssociates :
    Cardinality({i \in DOMAIN store.rows :
                   store.rows[i].associate_id = a /\ store.rows[i].end_time = {}}) <= 1

\* the rows before the call are kept as they were, but for the end time of
\* open rows of the associate the call was made for
OthersKept(before, after, associate_id) ==
  /\ Len(before) <= Len(after)
  /\ \A i \in DOMAIN before :
       \/ after[i] = before[i]
       \/ /\ before[i].associate_id = associate_id
          /\ before[i].end_time = {}
          /\ after[i] = [before[i] EXCEPT !.end_time = after[i].end_time]

\* what a call does to the table
C28_Step ==
  /\ OthersKept(store.rows, store'.rows, store'.last.associate_id)
  /\ store'.last.fn = "end_active_session" =>
       /\ Len(store'.rows) = Len(store.rows)
       /\ \A i \in DOMAIN store.rows :
            store.rows[i].associate_id = store'.last.associate_id
              => store'.rows[i].end_time # {}
  /\ store'.last.fn = "start_session" =>
       /\ Len(store'.rows) = Len(store.rows) + 1
       /\ store'.rows[Len(store'.rows)].associate_id = store'.last.associate_id
       /\ store'.rows[Len(store'.rows)].end_time = {}
       /\ \A i \in DOMAIN store.rows :
            store.rows[i].associate_id = store'.last.associate_id
              => store'.rows[i].end_time # {}

\* C28: after any sequence of start_session and end_active_session calls
\* every associate has at most one open session; start_session ends the
\* associate's open session and inserts the new one, end_active_session
\* without an open session changes nothing, and no call changes the rows of
\* another associate or the end time of a closed session.
C28_AtMostOneOpenSession == []C28_OneOpen /\ [][C28_Step]_vars

\* an associate with one closed and one open session after two starts, and
\* another associate whose only session is open
C28_Witness ==
  /\ store # <<>>
  /\ Len(store.rows) = 3
  /\ \E a \in StoreAssociates :
       /\ Cardinality({i \in DOMAIN store.rows : store.rows[i].associate_id = a}) = 2
       /\ Cardinality({i \in DOMAIN store.rows :
                         store.rows[i].associate_id = a /\ store.rows[i].end_time = {}}) = 1
  /\ Cardinality({i \in DOMAIN store.rows : store.rows[i].end_time = {}}) = 2

=============================================================================
